---- MODULE Spec2Model ----
(***************************************************************************)
(* Pipeline orchestration engine of the AWS infrastructure generator:      *)
(* the LangGraph workflow of workflow.py over the agents of agents.py.     *)
(*                                                                         *)
(* st     the checkpointed GraphState: a dictionary, keys absent until a   *)
(*        stage (or the session entry) writes them                         *)
(* stage  the node the graph runs next ("end" once END is reached)         *)
(* The other variables are history variables that record what has run;    *)
(* written holds the *_passed flags set since the last Planner run,        *)
(* cycleFiles the artifact names generated or fixed since then, cycle the  *)
(* queue that Planner run produced and the names generated from it.        *)
(*                                                                         *)
(* workDir  the one directory WORK_DIR of tools.py, as files on disk       *)
(* sess     two sessions of the process, each at a tool call of its        *)
(*          Validator, SecurityScanner or Deployer (specification DirSpec) *)
(* call     the state ErrorAnalyzerAgent.run is called on, returned what   *)
(*          it returns (specification AnalyzerSpec)                        *)
(*                                                                         *)
(* Report texts are sequences of phrases; the substring tests of the code  *)
(* ("x in report", "kw in report.lower()") are looked up in the tables     *)
(* Markers (case-sensitive) and LowerKeywords (after lower()).             *)
(***************************************************************************)
EXTENDS Integers, Sequences, FiniteSets, TLC

VARIABLES st, stage, lastStage, plannerRuns, threadRuns, fresh, trail,
          rcAtFailure, lastValidation, streak, streakOpen, written, cycleFiles, cycle,
          workDir, sess, call, returned

vars == <<st, stage, lastStage, plannerRuns, threadRuns, fresh, trail,
          rcAtFailure, lastValidation, streak, streakOpen, written, cycleFiles, cycle,
          workDir, sess, call, returned>>

\* the state of one run of the graph and its history
runVars == <<st, stage, lastStage, plannerRuns, threadRuns, fresh, trail,
             rcAtFailure, lastValidation, streak, streakOpen, written, cycleFiles,
             cycle>>

\* the working directory of tools.py and the sessions that share it
dirVars == <<workDir, sess>>

\* a call of ErrorAnalyzerAgent.run on a given state, and what it returned
fnVars == <<call, returned>>

(***************************************************************************)
(* Bounds of the model.                                                    *)
(***************************************************************************)
\* Planner runs the model follows on one thread (over all its invocations)
MaxPlannerRuns == 6
\* stages recorded of one repair episode (a longer episode is recorded as overflown)
MaxTrail == 4
\* leading full-retry validation failures counted per invocation (saturating)
MaxStreak == 4
\* phrases of a report text given to the error classifier
MaxPhrases == 2

(***************************************************************************)
(* Program constants.                                                      *)
(***************************************************************************)
MAX_RETRIES == 3

END == "end"

\* ToolResponseMessages and the literal markers the agents test for
VALIDATION_SUCCESS == "Validation successful"
SECURITY_SUCCESS == "No security issues detected"
VALIDATION_PREFIX == "Formatted Files JSON:"
APPLY_SUCCESS == "Terraform apply successful"
COST_UNAVAILABLE == "Cost estimation unavailable"

(***************************************************************************)
(* Dictionaries.                                                           *)
(***************************************************************************)
EmptyDict == [k \in {} |-> 0]

Has(d, k) == k \in DOMAIN d

\* dict.get(k, default)
Get(d, k, default) == IF k \in DOMAIN d THEN d[k] ELSE default

\* the shallow key-wise override LangGraph applies to a node's return value
Merge(d, patch) ==
    [k \in DOMAIN d \cup DOMAIN patch |->
        IF k \in DOMAIN patch THEN patch[k] ELSE d[k]]

\* d[k] = v on a copy
Put(d, k, v) == [x \in DOMAIN d \cup {k} |-> IF x = k THEN v ELSE d[x]]

Range(s) == {s[i] : i \in DOMAIN s}

(***************************************************************************)
(* Texts: phrases and what they contain.                                   *)
(***************************************************************************)
P_VALID_OK == "Validation successful. Code is syntactically correct and well-formed."
P_TF_ERROR == "TERRAFORM ERROR"
P_EXISTS == "Error: resource \"aws_s3_bucket\" \"data\" already exists"
P_UNSUPPORTED == "Error: Unsupported argument"
P_DEPLOY_SEP == "--- DEPLOYMENT ERRORS ---"
P_APPLY_OK == "Terraform apply successful."
P_SEC_OK == "Security scan passed. No security issues detected by tfsec."
P_SEC_ISSUES == "Security scan detected issues."
P_SEC_HIGH == "Severity: HIGH"
P_TFSEC_MISSING == "Error: tfsec command not found."
P_COST_NA == "Cost estimation unavailable: No resources have been deployed yet."
P_COST == "Estimated monthly cost"
P_COST_ERROR == "Cost estimation error: unexpected"
P_SG_NOT_FOUND == "Security group sg-1 not found"
P_SUBNET_REQUIRED == "Error: db_subnet_group_name is required"
P_SUBNET_SET == "db_subnet_group_name = aws_db_subnet_group.main.name"
P_REF_IAM == "Error: Reference to undeclared IAM role: deployer not found"
P_IAM_MISSING == "Error: IAM policy readonly does not exist"
P_IAM_DENIED == "Error: IAM role deployer is not authorized"
P_SEC_CRITICAL == "Severity: CRITICAL"
P_SEC_LOW == "Severity: LOW"
P_NO_WORK_DIR == "Error: Work directory not found. Please run validation first."
P_SCAN_UNEXPECTED == "An unexpected error occurred during security scan: permission denied"

\* the case-sensitive markers a phrase contains
Markers(p) ==
    CASE p = P_VALID_OK -> {VALIDATION_SUCCESS}
      [] p = P_APPLY_OK -> {APPLY_SUCCESS}
      [] p = P_SEC_OK -> {SECURITY_SUCCESS}
      [] p = P_COST_NA -> {COST_UNAVAILABLE}
      [] OTHER -> {}

\* the classifier keywords the lower-cased phrase contains
LowerKeywords(p) ==
    CASE p = P_EXISTS -> {"already exists"}
      [] p = P_SEC_HIGH -> {"high"}
      [] p = P_TFSEC_MISSING -> {"not found"}
      [] p = P_NO_WORK_DIR -> {"not found"}
      [] p = P_COST_NA -> {"no resource"}
      [] p = P_SG_NOT_FOUND -> {"security group", "not found"}
      [] p = P_SUBNET_REQUIRED -> {"db_subnet_group_name", "required"}
      [] p = P_SUBNET_SET -> {"db_subnet_group_name"}
      [] p = P_REF_IAM -> {"reference", "iam", "role", "not found"}
      [] p = P_IAM_MISSING -> {"iam", "policy", "does not exist"}
      [] p = P_IAM_DENIED -> {"iam", "role"}
      [] p = P_SEC_CRITICAL -> {"critical"}
      [] OTHER -> {}

\* the resource declaration (type.name) a phrase holds, if any
ResourceIn(p) ==
    CASE p = P_EXISTS -> <<"aws_s3_bucket.data">>
      [] OTHER -> << >>

\* A report: its text and, after VALIDATION_PREFIX, the JSON of the formatted
\* files (has_json tells whether the prefix and the JSON are there).
Report(text, has_json, json) == [text |-> text, has_json |-> has_json, json |-> json]

EmptyReport == Report(<< >>, FALSE, EmptyDict)

\* truthiness of a report string
NonEmpty(r) == r.text # << >> \/ r.has_json

\* marker in report
Contains(r, marker) ==
    \/ \E i \in DOMAIN r.text : marker \in Markers(r.text[i])
    \/ marker = VALIDATION_PREFIX /\ r.has_json

\* truthiness of a flag read with state.get (None when absent)
Truthy(d, k) == Has(d, k) /\ d[k] = TRUE

(***************************************************************************)
(* External collaborators: what they may return.                           *)
(***************************************************************************)
REQUEST == "create an s3 bucket"
FEEDBACK == "use a smaller instance"

\* File contents: code as the service wrote it, possibly not in canonical
\* format, and code in the canonical format of terraform fmt.
HCL_RAW == "hcl unformatted"
HCL_FMT == "hcl formatted"

\* terraform fmt: the canonical form of a file content
Fmt(code) == IF code = HCL_RAW THEN HCL_FMT ELSE code

\* the classifier keywords the lower-cased content contains: the generated
\* code declares an aws_security_group, in either format
CodeKeywords(code) == IF code \in {HCL_RAW, HCL_FMT} THEN {"security_group"} ELSE {}

\* kw in report.lower(): in the text or in the JSON of the formatted files
ContainsLower(r, kw) ==
    \/ \E i \in DOMAIN r.text : kw \in LowerKeywords(r.text[i])
    \/ r.has_json /\ \E k \in DOMAIN r.json : kw \in CodeKeywords(r.json[k])

\* responses of the text-generation service when code is asked for
CodeResponses ==
    [fence : {"none", "hcl"}, code : {HCL_RAW, HCL_FMT}]

\* the queue the text-generation service plans (file_name, brief)
LlmFiles ==
    << [file_name |-> "vpc.tf", brief |-> <<"aws_vpc main">>],
       [file_name |-> "vpc.tf", brief |-> <<"aws_subnet main">>] >>

\* responses of the text-generation service when a plan is asked for:
\* no JSON object at all, or a JSON object (possibly lacking plan or files)
PlannerResponses ==
    { [json |-> FALSE, obj |-> EmptyDict],
      [json |-> TRUE, obj |-> [files |-> LlmFiles]],
      [json |-> TRUE, obj |-> [plan |-> "1. Setup provider", files |-> << >>]],
      [json |-> TRUE, obj |-> [plan |-> "1. Setup provider", files |-> LlmFiles]] }

\* outcomes of terraform init/validate/fmt
ValidateOutcomes == {"ok", "already_exists", "unsupported"}

\* outcomes of tfsec that the graph is run with
ScanOutcomes == {"clean", "issues", "tfsec_missing"}

\* every way the scan tool returns something other than the success message
ScanFailures == {"issues", "tfsec_missing", "no_work_dir", "unexpected_error"}

\* outcomes of terraform apply that the graph is run with
ApplyOutcomes == {"ok", "already_exists", "unsupported"}

\* failures of terraform apply that the ErrorAnalyzer is called on
ApplyFailures == {"already_exists", "unsupported", "iam_missing"}

\* outcomes of the cost estimate
CostOutcomes == {"unavailable", "estimated", "error"}

FailureText(outcome) ==
    CASE outcome = "already_exists" -> <<P_TF_ERROR, P_EXISTS>>
      [] outcome = "iam_missing" -> <<P_TF_ERROR, P_IAM_MISSING>>
      [] OTHER -> <<P_TF_ERROR, P_UNSUPPORTED>>

terraform_validate_tool(files, outcome) ==
    IF outcome = "ok"
    THEN Report(<<P_VALID_OK>>, TRUE, [k \in DOMAIN files |-> Fmt(files[k])])
    ELSE Report(FailureText(outcome), FALSE, EmptyDict)

terraform_security_scan_tool(files, outcome) ==
    CASE outcome = "clean" -> Report(<<P_SEC_OK>>, FALSE, EmptyDict)
      [] outcome = "issues" -> Report(<<P_SEC_ISSUES, P_SEC_HIGH>>, FALSE, EmptyDict)
      [] outcome = "no_work_dir" -> Report(<<P_NO_WORK_DIR>>, FALSE, EmptyDict)
      [] outcome = "unexpected_error" -> Report(<<P_SCAN_UNEXPECTED>>, FALSE, EmptyDict)
      [] OTHER -> Report(<<P_TFSEC_MISSING>>, FALSE, EmptyDict)

terraform_apply_tool(files, outcome) ==
    IF outcome = "ok"
    THEN Report(<<P_APPLY_OK>>, FALSE, EmptyDict)
    ELSE Report(FailureText(outcome), FALSE, EmptyDict)

terraform_cost_estimate_tool(files, outcome) ==
    CASE outcome = "unavailable" -> Report(<<P_COST_NA>>, FALSE, EmptyDict)
      [] outcome = "error" -> Report(<<P_COST_ERROR>>, FALSE, EmptyDict)
      [] OTHER -> Report(<<P_COST>>, FALSE, EmptyDict)

(***************************************************************************)
(* Helper functions of agents.py.                                          *)
(***************************************************************************)
_create_fallback_structure(initial_request) ==
    [plan |-> "1. Configure AWS provider 2. Create requested resources with security",
     file_structure |->
        << [file_name |-> "provider.tf",
            brief |-> <<"Standard AWS provider configuration for the us-east-1 region.">>],
           [file_name |-> "main.tf",
            brief |-> <<"Create all resources needed for: ", initial_request>>] >>]

\* raises json.JSONDecodeError when the response holds no JSON object
_parse_llm_json_response(response) ==
    IF response.json
    THEN [raised |-> FALSE, parsed |-> response.obj]
    ELSE [raised |-> TRUE, parsed |-> EmptyDict]

\* the code between the fences, or the whole response when there is none
_clean_markdown_code_fences(response) == response.code

(***************************************************************************)
(* The agents: run(state) returns the patch merged into the state.         *)
(***************************************************************************)
\* mutant: the Planner never counts the retry
PlannerRetryCount_keep(state) == Get(state, "retry_count", 0)

\* mutant: the Planner counts every run as a retry
PlannerRetryCount_always(state) == Get(state, "retry_count", 0) + 1

PlannerRetryCount(state) ==
    IF NonEmpty(Get(state, "validation_report", EmptyReport))
       /\ ~Truthy(state, "validation_passed")
    THEN Get(state, "retry_count", 0) + 1
    ELSE Get(state, "retry_count", 0)

\* mutant: a parsed response is used as it is, also without plan or files
PlannerArchitectAgent_run_as_parsed(state, response) ==
    LET retry_count == PlannerRetryCount(state)
        res == _parse_llm_json_response(response)
    IN  IF res.raised
        THEN Merge(_create_fallback_structure(state["initial_request"]),
                   [retry_count |-> retry_count])
        ELSE [plan |-> Get(res.parsed, "plan", ""),
              file_structure |-> Get(res.parsed, "files", << >>),
              retry_count |-> retry_count]

PlannerArchitectAgent_run(state, response) ==
    LET retry_count == PlannerRetryCount(state)
        res == _parse_llm_json_response(response)
        plan == Get(res.parsed, "plan", "")
        file_structure == Get(res.parsed, "files", << >>)
        fallback == Merge(_create_fallback_structure(state["initial_request"]),
                          [retry_count |-> retry_count])
    IN  IF res.raised THEN fallback
        ELSE IF plan = "" \/ file_structure = << >> THEN fallback
        ELSE [plan |-> plan, file_structure |-> file_structure,
              retry_count |-> retry_count]

\* mutant: pop() instead of pop(0), the queue is served last-in first-out
CodeGeneratorAgent_run_lifo(state, response) ==
    LET files_to_generate == state["file_structure"]
    IN  IF files_to_generate = << >> THEN EmptyDict
        ELSE LET n == Len(files_to_generate)
                 current_file_spec == files_to_generate[n]
                 updated_files == Put(Get(state, "generated_files", EmptyDict),
                                      current_file_spec.file_name,
                                      _clean_markdown_code_fences(response))
             IN  [generated_files |-> updated_files,
                  file_structure |-> SubSeq(files_to_generate, 1, n - 1)]

CodeGeneratorAgent_run(state, response) ==
    LET files_to_generate == state["file_structure"]
    IN  IF files_to_generate = << >> THEN EmptyDict
        ELSE LET current_file_spec == Head(files_to_generate)
                 file_name == current_file_spec.file_name
                 generated_code == _clean_markdown_code_fences(response)
                 updated_files == Put(Get(state, "generated_files", EmptyDict),
                                      file_name, generated_code)
             IN  [generated_files |-> updated_files,
                  file_structure |-> Tail(files_to_generate)]

\* mutant: the new report is appended to the report already in the state
CodeValidatorAgent_run_accumulates(state, outcome) ==
    LET files == state["generated_files"]
        report == terraform_validate_tool(files, outcome)
        previous == Get(state, "validation_report", EmptyReport)
        validation_passed == Contains(report, VALIDATION_SUCCESS)
    IN  [validation_report |-> Report(previous.text \o report.text, report.has_json,
                                      report.json),
         validation_passed |-> validation_passed,
         generated_files |-> IF validation_passed THEN report.json ELSE files]

CodeValidatorAgent_run(state, outcome) ==
    LET files == state["generated_files"]
        validation_report == terraform_validate_tool(files, outcome)
        validation_passed == Contains(validation_report, VALIDATION_SUCCESS)
        formatted_files ==
            IF validation_passed /\ Contains(validation_report, VALIDATION_PREFIX)
            THEN validation_report.json
            ELSE files
    IN  [validation_report |-> validation_report,
         validation_passed |-> validation_passed,
         generated_files |-> formatted_files]

\* mutant: only the deployment report is handed to the analyzer
CombinedReport_errors_only(existing_report, deployment_report) ==
    Report(<<P_DEPLOY_SEP>> \o deployment_report.text, FALSE, EmptyDict)

\* f"{existing_report}\n\n--- DEPLOYMENT ERRORS ---\n{deployment_report}"
CombinedReport(existing_report, deployment_report) ==
    Report(existing_report.text \o <<P_DEPLOY_SEP>> \o deployment_report.text,
           existing_report.has_json, existing_report.json)

\* mutant: the Deployer applies without looking at the flags
DeployerAgent_run_unguarded(state, outcome) ==
    LET deployment_report == terraform_apply_tool(state["generated_files"], outcome)
    IN  IF Contains(deployment_report, APPLY_SUCCESS)
        THEN [deployment_report |-> deployment_report, deployment_passed |-> TRUE]
        ELSE [deployment_report |-> deployment_report,
              deployment_passed |-> FALSE,
              validation_report |->
                  CombinedReport(Get(state, "validation_report", EmptyReport),
                                 deployment_report),
              validation_passed |-> FALSE]

\* mutant: a failed apply is reported as a deployment failure only
DeployerAgent_run_unfolded(state, outcome) ==
    LET deployment_report == terraform_apply_tool(state["generated_files"], outcome)
    IN  [deployment_report |-> deployment_report,
         deployment_passed |-> Contains(deployment_report, APPLY_SUCCESS)]

\* mutant: a failed apply folds its report but leaves validation_passed alone
DeployerAgent_run_keeps_flag(state, outcome) ==
    LET deployment_report == terraform_apply_tool(state["generated_files"], outcome)
    IN  IF Contains(deployment_report, APPLY_SUCCESS)
        THEN [deployment_report |-> deployment_report, deployment_passed |-> TRUE]
        ELSE [deployment_report |-> deployment_report,
              deployment_passed |-> FALSE,
              validation_report |->
                  CombinedReport(Get(state, "validation_report", EmptyReport),
                                 deployment_report)]

\* mutant: a failed apply is reported without writing deployment_passed
DeployerAgent_run_report_only(state, outcome) ==
    IF ~Truthy(state, "validation_passed") \/ ~Truthy(state, "security_passed")
    THEN [deployment_report |-> Report(<<"Skipping deployment because validation failed.">>,
                                       FALSE, EmptyDict)]
    ELSE LET deployment_report == terraform_apply_tool(state["generated_files"], outcome)
         IN  IF Contains(deployment_report, APPLY_SUCCESS)
             THEN [deployment_report |-> deployment_report, deployment_passed |-> TRUE]
             ELSE [deployment_report |-> deployment_report,
                   validation_report |->
                       CombinedReport(Get(state, "validation_report", EmptyReport),
                                      deployment_report),
                   validation_passed |-> FALSE]

DeployerAgent_run(state, outcome) ==
    IF ~Truthy(state, "validation_passed")
    THEN [deployment_report |-> Report(<<"Skipping deployment because validation failed.">>,
                                       FALSE, EmptyDict)]
    ELSE IF ~Truthy(state, "security_passed")
    THEN [deployment_report |-> Report(<<"Skipping deployment because security scan failed.">>,
                                       FALSE, EmptyDict)]
    ELSE LET deployment_report == terraform_apply_tool(state["generated_files"], outcome)
         IN  IF Contains(deployment_report, APPLY_SUCCESS)
             THEN [deployment_report |-> deployment_report,
                   deployment_passed |-> TRUE]
             ELSE [deployment_report |-> deployment_report,
                   deployment_passed |-> FALSE,
                   validation_report |->
                       CombinedReport(Get(state, "validation_report", EmptyReport),
                                      deployment_report),
                   validation_passed |-> FALSE]

\* mutant: strict policy, security_passed mirrors the scan result
SecurityScannerAgent_run_strict(state, outcome) ==
    LET security_report == terraform_security_scan_tool(state["generated_files"], outcome)
    IN  [security_report |-> security_report,
         security_passed |-> Contains(security_report, SECURITY_SUCCESS)]

\* mutant: the scanner hands on the artifacts as they were before formatting
SecurityScannerAgent_run_rewrites(state, outcome) ==
    LET security_report == terraform_security_scan_tool(state["generated_files"], outcome)
        files == state["generated_files"]
    IN  [security_report |-> security_report,
         security_passed |-> TRUE,
         generated_files |-> [k \in DOMAIN files |-> HCL_RAW]]

\* mutant: a clean scan withdraws the warning
SecurityScannerAgent_run_clears(state, outcome) ==
    LET security_report == terraform_security_scan_tool(state["generated_files"], outcome)
    IN  IF Contains(security_report, SECURITY_SUCCESS)
        THEN [security_report |-> security_report, security_passed |-> TRUE,
              security_warning |-> FALSE]
        ELSE [security_report |-> security_report, security_passed |-> TRUE,
              security_warning |-> TRUE]

\* mutant: a scan that could not be performed does not pass
SecurityScannerAgent_run_fails_closed(state, outcome) ==
    LET security_report == terraform_security_scan_tool(state["generated_files"], outcome)
    IN  IF Contains(security_report, SECURITY_SUCCESS)
        THEN [security_report |-> security_report, security_passed |-> TRUE]
        ELSE [security_report |-> security_report,
              security_passed |-> (P_SEC_ISSUES \in Range(security_report.text)),
              security_warning |-> TRUE]

SecurityScannerAgent_run(state, outcome) ==
    LET security_report == terraform_security_scan_tool(state["generated_files"], outcome)
        security_passed == Contains(security_report, SECURITY_SUCCESS)
    IN  IF security_passed
        THEN [security_report |-> security_report, security_passed |-> TRUE]
        ELSE [security_report |-> security_report, security_passed |-> TRUE,
              security_warning |-> TRUE]

\* mutant: cost_passed tells whether an estimate was produced
CostEstimatorAgent_run_mirrors(state, outcome) ==
    LET cost_report == terraform_cost_estimate_tool(state["generated_files"], outcome)
    IN  [cost_report |-> cost_report,
         cost_passed |-> ~Contains(cost_report, COST_UNAVAILABLE)]

CostEstimatorAgent_run(state, outcome) ==
    [cost_report |-> terraform_cost_estimate_tool(state["generated_files"], outcome),
     cost_passed |-> TRUE]

\* the ordered rule table of ErrorAnalyzerAgent._analyze_error_pattern
\* mutant: the rule list with the reference rule moved to the front
error_patterns_reference_first ==
    << [keywords |-> {"reference", "depends on", "no resource"},
        category |-> "invalid_reference",
        strategy |-> "fix_reference",
        description_template |-> "Fix invalid resource reference"],
       [keywords |-> {"already exists", "alreadyexists"},
        category |-> "resource_exists",
        strategy |-> "add_random_suffix",
        description_template |-> "Add random_id suffix to {resource}",
        extract_resource |-> TRUE],
       [keywords |-> {"iam"},
        additional_keywords |-> {"role", "policy"},
        required_keywords |-> {"not found", "does not exist"},
        category |-> "missing_iam",
        strategy |-> "add_iam_role",
        description_template |-> "Add missing IAM role/policy"],
       [keywords |-> {"db_subnet_group_name", "elasticache_subnet_group_name",
                      "cache_subnet_group_name"},
        required_keywords |-> {"not found", "does not exist", "missing", "invalid",
                               "required"},
        category |-> "missing_subnet_group",
        strategy |-> "add_subnet_group",
        description_template |-> "Add missing DB/cache subnet group resource"],
       [keywords |-> {"security group", "security_group"},
        additional_keywords |-> {"not found", "does not exist"},
        category |-> "missing_security_group",
        strategy |-> "add_security_group",
        description_template |-> "Add missing security group resource"] >>

error_patterns ==
    << [keywords |-> {"already exists", "alreadyexists"},
        category |-> "resource_exists",
        strategy |-> "add_random_suffix",
        description_template |-> "Add random_id suffix to {resource}",
        extract_resource |-> TRUE],
       [keywords |-> {"db_subnet_group_name", "elasticache_subnet_group_name",
                      "cache_subnet_group_name"},
        required_keywords |-> {"not found", "does not exist", "missing", "invalid",
                               "required"},
        category |-> "missing_subnet_group",
        strategy |-> "add_subnet_group",
        description_template |-> "Add missing DB/cache subnet group resource"],
       [keywords |-> {"security group", "security_group"},
        additional_keywords |-> {"not found", "does not exist"},
        category |-> "missing_security_group",
        strategy |-> "add_security_group",
        description_template |-> "Add missing security group resource"],
       [keywords |-> {"reference", "depends on", "no resource"},
        category |-> "invalid_reference",
        strategy |-> "fix_reference",
        description_template |-> "Fix invalid resource reference"],
       [keywords |-> {"iam"},
        additional_keywords |-> {"role", "policy"},
        required_keywords |-> {"not found", "does not exist"},
        category |-> "missing_iam",
        strategy |-> "add_iam_role",
        description_template |-> "Add missing IAM role/policy"] >>

_matches_pattern(error_report, pattern) ==
    /\ \E kw \in pattern.keywords : ContainsLower(error_report, kw)
    /\ Has(pattern, "additional_keywords")
          => \E kw \in pattern.additional_keywords : ContainsLower(error_report, kw)
    /\ Has(pattern, "required_keywords")
          => \E kw \in pattern.required_keywords : ContainsLower(error_report, kw)

\* mutant: the resource of the report is not extracted
_extract_resource_from_report_unknown(error_report) == "unknown"

\* re.search(r'resource "([^"]+)" "([^"]+)"', error_report): the first declaration
_extract_resource_from_report(error_report) ==
    LET hits == {i \in DOMAIN error_report.text : ResourceIn(error_report.text[i]) # << >>}
    IN  IF hits = {} THEN "unknown"
        ELSE ResourceIn(error_report.text[CHOOSE i \in hits : \A j \in hits : i <= j])[1]

\* returns <<fixable, analysis>>
_analyze_error_pattern(error_report, error_type) ==
    IF error_type = "security"
    THEN IF ContainsLower(error_report, "high") \/ ContainsLower(error_report, "critical")
         THEN <<FALSE, [category |-> "security_issues", strategy |-> "full_retry",
                        fix_description |->
                          <<"Security issues require full regeneration with updated requirements">>]>>
         ELSE <<FALSE, [category |-> "security_warning", strategy |-> "skip",
                        fix_description |->
                          <<"Minor security warnings - can proceed with deployment">>]>>
    ELSE LET matching == {i \in DOMAIN error_patterns :
                             _matches_pattern(error_report, error_patterns[i])}
         IN  IF matching = {}
             THEN <<FALSE, [category |-> "unknown", strategy |-> "full_retry",
                            fix_description |->
                              <<"Complex error requiring full regeneration">>]>>
             ELSE LET pattern == error_patterns[CHOOSE i \in matching :
                                                   \A j \in matching : i <= j]
                      result == [category |-> pattern.category,
                                 strategy |-> pattern.strategy,
                                 fix_description |-> <<pattern.description_template>>]
                  IN  IF Has(pattern, "extract_resource")
                      THEN LET resource == _extract_resource_from_report(error_report)
                           IN  <<TRUE, Merge(result,
                                   [resource |-> resource,
                                    fix_description |->
                                        <<pattern.description_template, resource>>])>>
                      ELSE <<TRUE, result>>

\* mutant: the deployment report is looked at before the security report
SelectedError_deployment_first(state) ==
    IF ~Truthy(state, "validation_passed")
    THEN [error_report |-> Get(state, "validation_report", EmptyReport),
          error_type |-> "validation"]
    ELSE IF ~Truthy(state, "deployment_passed")
    THEN [error_report |-> Get(state, "deployment_report", EmptyReport),
          error_type |-> "deployment"]
    ELSE IF ~Truthy(state, "security_passed")
    THEN [error_report |-> Get(state, "security_report", EmptyReport),
          error_type |-> "security"]
    ELSE [error_report |-> EmptyReport, error_type |-> ""]

\* the report the analyzer classifies, and its origin
SelectedError(state) ==
    IF ~Truthy(state, "validation_passed")
    THEN [error_report |-> Get(state, "validation_report", EmptyReport),
          error_type |-> "validation"]
    ELSE IF ~Truthy(state, "security_passed")
    THEN [error_report |-> Get(state, "security_report", EmptyReport),
          error_type |-> "security"]
    ELSE IF ~Truthy(state, "deployment_passed")
    THEN [error_report |-> Get(state, "deployment_report", EmptyReport),
          error_type |-> "deployment"]
    ELSE [error_report |-> EmptyReport, error_type |-> ""]

\* mutant: an analysis that asks for a full retry discards the artifacts
ErrorAnalyzerAgent_run_discards(state) ==
    LET sel == SelectedError(state)
    IN  IF ~NonEmpty(sel.error_report)
        THEN [needs_full_retry |-> TRUE,
              error_analysis |-> [message |-> "No error report"],
              generated_files |-> EmptyDict]
        ELSE LET res == _analyze_error_pattern(sel.error_report, sel.error_type)
             IN  IF res[1]
                 THEN [needs_full_retry |-> FALSE,
                       error_analysis |-> res[2],
                       fix_strategy |-> res[2].strategy]
                 ELSE [needs_full_retry |-> TRUE,
                       error_analysis |-> res[2],
                       generated_files |-> EmptyDict]

ErrorAnalyzerAgent_run(state) ==
    LET sel == SelectedError(state)
    IN  IF ~NonEmpty(sel.error_report)
        THEN [needs_full_retry |-> TRUE,
              error_analysis |-> [message |-> "No error report"]]
        ELSE LET res == _analyze_error_pattern(sel.error_report, sel.error_type)
                 fixable == res[1]
                 analysis == res[2]
             IN  IF fixable
                 THEN [needs_full_retry |-> FALSE,
                       error_analysis |-> analysis,
                       fix_strategy |-> analysis.strategy]
                 ELSE [needs_full_retry |-> TRUE,
                       error_analysis |-> analysis]

\* mutant: a targeted fix is counted as a retry
TargetedFixAgent_run_counts(state, response) ==
    [generated_files |-> Put(state["generated_files"], "main.tf",
                             _clean_markdown_code_fences(response)),
     targeted_fix_applied |-> TRUE,
     retry_count |-> Get(state, "retry_count", 0) + 1]

\* mutant: the fix replaces the artifacts map by the fixed file alone
TargetedFixAgent_run_alone(state, response) ==
    [generated_files |-> Put(EmptyDict, "main.tf", _clean_markdown_code_fences(response)),
     targeted_fix_applied |-> TRUE]

\* mutant: the fixed code is written over every artifact
TargetedFixAgent_run_every(state, response) ==
    LET fixed_code == _clean_markdown_code_fences(response)
        files == state["generated_files"]
    IN  [generated_files |-> [k \in DOMAIN files \cup {"main.tf"} |-> fixed_code],
         targeted_fix_applied |-> TRUE]

TargetedFixAgent_run(state, response) ==
    LET analysis == Get(state, "error_analysis", EmptyDict)
        strategy == Get(analysis, "strategy", "unknown")
        fixed_code == _clean_markdown_code_fences(response)
        updated_files == Put(state["generated_files"], "main.tf", fixed_code)
    IN  [generated_files |-> updated_files,
         targeted_fix_applied |-> TRUE,
         targeted_fix_strategy |-> strategy,
         targeted_fix_description |-> Get(analysis, "fix_description", <<"N/A">>)]

(***************************************************************************)
(* Routers and the graph of build_workflow.                                *)
(***************************************************************************)
\* mutant: the node name of the main.py graph
_retry_or_end_router_planner(state) ==
    IF Get(state, "human_feedback", "") # "" \/ Get(state, "retry_count", 0) < MAX_RETRIES
    THEN "planner"
    ELSE "end"

\* mutant: retry while retry_count <= MAX_RETRIES
_retry_or_end_router_le(state) ==
    IF Get(state, "human_feedback", "") # "" \/ Get(state, "retry_count", 0) <= MAX_RETRIES
    THEN "planner_architect"
    ELSE "end"

\* mutant: retry while retry_count < MAX_RETRIES - 1
_retry_or_end_router_short(state) ==
    IF Get(state, "human_feedback", "") # "" \/ Get(state, "retry_count", 0) < MAX_RETRIES - 1
    THEN "planner_architect"
    ELSE "end"

_retry_or_end_router(state) ==
    LET retry_count == Get(state, "retry_count", 0)
    IN  IF Get(state, "human_feedback", "") # "" \/ retry_count < MAX_RETRIES
        THEN "planner_architect"
        ELSE "end"

\* mutant: one generation per planning cycle
code_generation_router_once(state) == "code_validator"

code_generation_router(state) ==
    IF Get(state, "file_structure", << >>) # << >>
    THEN "code_generator"
    ELSE "code_validator"

\* mutant: a failed validation goes back to the Planner without analysis
validation_router_replan(state) ==
    IF Truthy(state, "validation_passed") THEN "security_scanner" ELSE "planner_architect"

validation_router(state) ==
    IF Truthy(state, "validation_passed") THEN "security_scanner" ELSE "error_analyzer"

\* mutant: every analysis is sent to the targeted fixer
error_analysis_router_always(state) == "targeted_fixer"

error_analysis_router(state) ==
    IF Truthy(state, "needs_full_retry")
    THEN _retry_or_end_router(state)
    ELSE "targeted_fixer"

targeted_fix_router(state) == "code_validator"

security_router(state) ==
    IF Truthy(state, "security_passed") THEN "deployer" ELSE "error_analyzer"

\* mutant: a failed deployment ends the run (the edge of streamlit_app.py)
deployment_router_end(state) ==
    IF Truthy(state, "deployment_passed") THEN "cost_estimator" ELSE "end"

deployment_router(state) ==
    IF Truthy(state, "deployment_passed") THEN "cost_estimator" ELSE "error_analyzer"

cost_router(state) == "end"

Nodes == {"planner_architect", "code_generator", "code_validator", "security_scanner",
          "cost_estimator", "deployer", "error_analyzer", "targeted_fixer"}

\* nodes with conditional edges (planner_architect has a plain edge)
RoutedNodes == Nodes \ {"planner_architect"}

\* the value the router of a node returns
RouterOf(node, state) ==
    CASE node = "code_generator" -> code_generation_router(state)
      [] node = "code_validator" -> validation_router(state)
      [] node = "error_analyzer" -> error_analysis_router(state)
      [] node = "targeted_fixer" -> targeted_fix_router(state)
      [] node = "security_scanner" -> security_router(state)
      [] node = "deployer" -> deployment_router(state)
      [] node = "cost_estimator" -> cost_router(state)

\* the path map given to add_conditional_edges for a node
ConditionalEdges(node) ==
    CASE node = "code_generator" ->
            [code_generator |-> "code_generator", code_validator |-> "code_validator"]
      [] node = "code_validator" ->
            [security_scanner |-> "security_scanner", error_analyzer |-> "error_analyzer",
             end |-> END, planner_architect |-> "planner_architect"]
      [] node = "error_analyzer" ->
            [targeted_fixer |-> "targeted_fixer", end |-> END,
             planner_architect |-> "planner_architect"]
      [] node = "targeted_fixer" ->
            [code_validator |-> "code_validator"]
      [] node = "security_scanner" ->
            [deployer |-> "deployer", error_analyzer |-> "error_analyzer",
             end |-> END, planner_architect |-> "planner_architect"]
      [] node = "deployer" ->
            [cost_estimator |-> "cost_estimator", error_analyzer |-> "error_analyzer",
             end |-> END, planner_architect |-> "planner_architect"]
      [] node = "cost_estimator" ->
            [end |-> END]

\* a router value that is no key of the path map leaves the graph without a next node
NO_EDGE == "no edge"

\* the node that follows `node` in state `state`
NextNode(node, state) ==
    IF node = "planner_architect" THEN "code_generator"
    ELSE LET r == RouterOf(node, state)
         IN  IF Has(ConditionalEdges(node), r) THEN ConditionalEdges(node)[r] ELSE NO_EDGE

(***************************************************************************)
(* History of a run (what the claims speak about; the code keeps none).    *)
(***************************************************************************)
START == "__start__"

OVERFLOW == <<"...">>

\* the stages of a repair episode, from the failing stage on
Push(tr, node) ==
    IF tr = OVERFLOW \/ Len(tr) >= MaxTrail THEN OVERFLOW ELSE Append(tr, node)

RetryCount == Get(st, "retry_count", 0)

(***************************************************************************)
(* The session entry surface.                                              *)
(***************************************************************************)
\* app.py: the inputs of a new request
NewRequestInputs ==
    [initial_request |-> REQUEST, human_feedback |-> "", retry_count |-> 0]

\* main.py / streamlit_app.py: the inputs of a revision
RevisionInputs == [human_feedback |-> FEEDBACK]

(***************************************************************************)
(* The working directory of tools.py, shared by the sessions of a process. *)
(***************************************************************************)
\* two sessions (script-run threads of the web app, or two processes started
\* from the same checkout): WORK_DIR is one path for all of them
Sessions == {"a", "b"}

\* file contents carry the session whose stage wrote them
FileOf(s, code) == <<s, code>>

\* terraform fmt -recursive: every file of the directory in canonical form
FmtFiles(files) == [n \in DOMAIN files |-> <<files[n][1], Fmt(files[n][2])>>]

\* the artifacts a session's Generator may hand to its Validator
Artifacts(s) ==
    { [n \in names |-> FileOf(s, HCL_RAW)] : names \in {{"main.tf"}, {"vpc.tf"}} }

\* os.makedirs(WORK_DIR, exist_ok=True) at import: the directory is there, empty
DirInit ==
    /\ workDir = [files |-> EmptyDict, initialized |-> FALSE]
    /\ sess = [s \in Sessions |->
                 [pc |-> "idle", generated_files |-> EmptyDict,
                  validated |-> EmptyDict, scanned |-> EmptyDict,
                  applied |-> EmptyDict]]

\* no Planner run yet
NoCycle == [queue |-> << >>, names |-> << >>]

RunInit ==
    /\ st = Merge(EmptyDict, NewRequestInputs)
    /\ stage = "planner_architect"
    /\ lastStage = START
    /\ plannerRuns = 0
    /\ threadRuns = 0
    /\ fresh = TRUE
    /\ trail = << >>
    /\ rcAtFailure = 0
    /\ lastValidation = EmptyReport
    /\ streak = 0
    /\ streakOpen = TRUE
    /\ written = {}
    /\ cycleFiles = {}
    /\ cycle = NoCycle

\* no call of the ErrorAnalyzer under study
NoCall == [none |-> TRUE]

NoResult == [none |-> TRUE]

Init ==
    /\ RunInit
    /\ DirInit
    /\ call = NoCall
    /\ returned = NoResult

\* the compiled graph is invoked again on the same thread (main.py, whose
\* MemorySaver lives as long as the process): the inputs override the
\* checkpointed state and the run starts at the entry point
Invoke(inputs) ==
    /\ stage = END
    /\ threadRuns < MaxPlannerRuns
    /\ st' = Merge(st, inputs)
    /\ stage' = "planner_architect"
    /\ lastStage' = START
    /\ plannerRuns' = 0
    /\ fresh' = FALSE
    /\ UNCHANGED threadRuns
    /\ trail' = << >>
    /\ rcAtFailure' = Get(st', "retry_count", 0)
    /\ lastValidation' = EmptyReport
    /\ streak' = 0
    /\ streakOpen' = TRUE
    /\ written' = {}
    /\ UNCHANGED dirVars
    /\ cycleFiles' = {}
    /\ cycle' = NoCycle
    /\ UNCHANGED fnVars

\* mutant: the graph and its checkpointer are kept between script runs (the
\* cached build_workflow of streamlit_app.py), so a new request is merged into
\* the state the thread was left in
StartRequest_same_thread == Invoke(NewRequestInputs)

\* app.py: a request is run by a script run of its own, which builds the graph
\* and a new MemorySaver (app = build_workflow()), so nothing is checkpointed
\* for the thread_id yet and the run starts from the inputs alone
StartRequest ==
    /\ stage = END
    /\ threadRuns < MaxPlannerRuns
    /\ st' = Merge(EmptyDict, NewRequestInputs)
    /\ stage' = "planner_architect"
    /\ lastStage' = START
    /\ plannerRuns' = 0
    /\ fresh' = TRUE
    /\ UNCHANGED threadRuns
    /\ trail' = << >>
    /\ rcAtFailure' = 0
    /\ lastValidation' = EmptyReport
    /\ streak' = 0
    /\ streakOpen' = TRUE
    /\ written' = {}
    /\ UNCHANGED dirVars
    /\ cycleFiles' = {}
    /\ cycle' = NoCycle
    /\ UNCHANGED fnVars

SubmitFeedback == Invoke(RevisionInputs)

(***************************************************************************)
(* One action per node: run the agent, merge its patch, consult the router.*)
(***************************************************************************)
Planner ==
    /\ stage = "planner_architect"
    /\ threadRuns < MaxPlannerRuns
    /\ \E response \in PlannerResponses :
          st' = Merge(st, PlannerArchitectAgent_run(st, response))
    /\ stage' = NextNode("planner_architect", st')
    /\ lastStage' = "planner_architect"
    /\ plannerRuns' = plannerRuns + 1
    /\ threadRuns' = threadRuns + 1
    /\ trail' = << >>
    /\ rcAtFailure' = Get(st', "retry_count", 0)
    /\ written' = {}
    /\ UNCHANGED <<fresh, lastValidation, streak, streakOpen>>
    /\ UNCHANGED dirVars
    /\ cycleFiles' = {}
    /\ cycle' = [queue |-> Get(st', "file_structure", << >>), names |-> << >>]
    /\ UNCHANGED fnVars

Generator ==
    /\ stage = "code_generator"
    /\ \E response \in CodeResponses :
          st' = Merge(st, CodeGeneratorAgent_run(st, response))
    /\ stage' = NextNode("code_generator", st')
    /\ lastStage' = "code_generator"
    /\ UNCHANGED <<plannerRuns, threadRuns, fresh, trail, rcAtFailure, lastValidation,
                   streak, streakOpen, written>>
    /\ UNCHANGED dirVars
    /\ cycleFiles' = IF st["file_structure"] = << >> THEN cycleFiles
                   ELSE cycleFiles \cup {Head(st["file_structure"]).file_name}
    /\ cycle' = IF st["file_structure"] = << >> THEN cycle
               ELSE [cycle EXCEPT !.names =
                        Append(@, Head(st["file_structure"]).file_name)]
    /\ UNCHANGED fnVars

Validator ==
    /\ stage = "code_validator"
    /\ \E outcome \in ValidateOutcomes :
          st' = Merge(st, CodeValidatorAgent_run(st, outcome))
    /\ stage' = NextNode("code_validator", st')
    /\ lastStage' = "code_validator"
    /\ lastValidation' = st'["validation_report"]
    /\ IF lastStage = "targeted_fixer"
       THEN /\ trail' = Push(trail, "code_validator")
            /\ UNCHANGED rcAtFailure
       ELSE /\ trail' = IF Truthy(st', "validation_passed")
                        THEN << >> ELSE <<"code_validator">>
            /\ rcAtFailure' = RetryCount
    /\ streakOpen' = (streakOpen /\ ~Truthy(st', "validation_passed"))
    /\ written' = written \cup {"validation_passed"}
    /\ UNCHANGED <<plannerRuns, threadRuns, fresh, streak>>
    /\ UNCHANGED dirVars
    /\ UNCHANGED cycleFiles
    /\ UNCHANGED cycle
    /\ UNCHANGED fnVars

SecurityScanner ==
    /\ stage = "security_scanner"
    /\ \E outcome \in ScanOutcomes :
          st' = Merge(st, SecurityScannerAgent_run(st, outcome))
    /\ stage' = NextNode("security_scanner", st')
    /\ lastStage' = "security_scanner"
    /\ trail' = << >>
    /\ written' = written \cup {"security_passed"}
    /\ UNCHANGED <<plannerRuns, threadRuns, fresh, rcAtFailure, lastValidation,
                   streak, streakOpen>>
    /\ UNCHANGED dirVars
    /\ UNCHANGED cycleFiles
    /\ UNCHANGED cycle
    /\ UNCHANGED fnVars

Deployer ==
    /\ stage = "deployer"
    /\ \E outcome \in ApplyOutcomes :
          st' = Merge(st, DeployerAgent_run(st, outcome))
    /\ stage' = NextNode("deployer", st')
    /\ lastStage' = "deployer"
    /\ trail' = IF Truthy(st', "deployment_passed") THEN << >> ELSE <<"deployer">>
    /\ rcAtFailure' = RetryCount
    /\ written' = IF Truthy(st, "validation_passed") /\ Truthy(st, "security_passed")
                   THEN written \cup {"deployment_passed"}
                   ELSE written
    /\ UNCHANGED <<plannerRuns, threadRuns, fresh, lastValidation, streak, streakOpen>>
    /\ UNCHANGED dirVars
    /\ UNCHANGED cycleFiles
    /\ UNCHANGED cycle
    /\ UNCHANGED fnVars

CostEstimator ==
    /\ stage = "cost_estimator"
    /\ \E outcome \in CostOutcomes :
          st' = Merge(st, CostEstimatorAgent_run(st, outcome))
    /\ stage' = NextNode("cost_estimator", st')
    /\ lastStage' = "cost_estimator"
    /\ written' = written \cup {"cost_passed"}
    /\ UNCHANGED <<plannerRuns, threadRuns, fresh, trail, rcAtFailure, lastValidation,
                   streak, streakOpen>>
    /\ UNCHANGED dirVars
    /\ UNCHANGED cycleFiles
    /\ UNCHANGED cycle
    /\ UNCHANGED fnVars

\* mutant: the retry-or-end decision counts the retry in the state it routes
ErrorAnalyzer_router_counts ==
    /\ stage = "error_analyzer"
    /\ LET after == Merge(st, ErrorAnalyzerAgent_run(st))
       IN  /\ stage' = NextNode("error_analyzer", after)
           /\ st' = IF stage' = "planner_architect"
                    THEN Put(after, "retry_count", Get(after, "retry_count", 0) + 1)
                    ELSE after
    /\ lastStage' = "error_analyzer"
    /\ trail' = Push(trail, "error_analyzer")
    /\ IF streakOpen /\ trail = <<"code_validator">> /\ Truthy(st', "needs_full_retry")
       THEN /\ streak' = IF streak < MaxStreak THEN streak + 1 ELSE streak
            /\ UNCHANGED streakOpen
       ELSE /\ streakOpen' = FALSE
            /\ UNCHANGED streak
    /\ UNCHANGED <<plannerRuns, threadRuns, fresh, rcAtFailure, lastValidation, written>>
    /\ UNCHANGED dirVars
    /\ UNCHANGED cycleFiles
    /\ UNCHANGED cycle
    /\ UNCHANGED fnVars

ErrorAnalyzer ==
    /\ stage = "error_analyzer"
    /\ st' = Merge(st, ErrorAnalyzerAgent_run(st))
    /\ stage' = NextNode("error_analyzer", st')
    /\ lastStage' = "error_analyzer"
    /\ trail' = Push(trail, "error_analyzer")
    /\ IF streakOpen /\ trail = <<"code_validator">> /\ Truthy(st', "needs_full_retry")
       THEN /\ streak' = IF streak < MaxStreak THEN streak + 1 ELSE streak
            /\ UNCHANGED streakOpen
       ELSE /\ streakOpen' = FALSE
            /\ UNCHANGED streak
    /\ UNCHANGED <<plannerRuns, threadRuns, fresh, rcAtFailure, lastValidation, written>>
    /\ UNCHANGED dirVars
    /\ UNCHANGED cycleFiles
    /\ UNCHANGED cycle
    /\ UNCHANGED fnVars

TargetedFixer ==
    /\ stage = "targeted_fixer"
    /\ \E response \in CodeResponses :
          st' = Merge(st, TargetedFixAgent_run(st, response))
    /\ stage' = NextNode("targeted_fixer", st')
    /\ lastStage' = "targeted_fixer"
    /\ trail' = Push(trail, "targeted_fixer")
    /\ UNCHANGED <<plannerRuns, threadRuns, fresh, rcAtFailure, lastValidation,
                   streak, streakOpen, written>>
    /\ UNCHANGED dirVars
    /\ cycleFiles' = cycleFiles \cup {"main.tf"}
    /\ UNCHANGED cycle
    /\ UNCHANGED fnVars

\* a stage of the graph runs
StageStep ==
    \/ Planner
    \/ Generator
    \/ Validator
    \/ SecurityScanner
    \/ Deployer
    \/ CostEstimator
    \/ ErrorAnalyzer
    \/ TargetedFixer

\* one invocation of the graph on a fresh thread
Next == StageStep

Spec == Init /\ [][Next]_vars

\* every stage call returns: a run that can take a stage step takes it
FairSpec == Spec /\ WF_vars(StageStep)

\* a user session: further requests (app.py) and revisions (main.py)
ThreadNext ==
    \/ StageStep
    \/ StartRequest
    \/ SubmitFeedback

ThreadSpec == Init /\ [][ThreadNext]_vars

(***************************************************************************)
(* Two sessions at the tool calls of Validator, SecurityScanner, Deployer. *)
(***************************************************************************)
\* a session's run reaches its Validator with the artifacts of its Generator
SessionValidates(s) ==
    /\ sess[s].pc = "idle"
    /\ \E files \in Artifacts(s) :
          sess' = [sess EXCEPT ![s] =
                     [pc |-> "prepare", generated_files |-> files,
                      validated |-> EmptyDict, scanned |-> EmptyDict,
                      applied |-> EmptyDict]]
    /\ UNCHANGED workDir
    /\ UNCHANGED runVars
    /\ UNCHANGED fnVars

\* _prepare_work_directory: shutil.rmtree(WORK_DIR); os.makedirs(WORK_DIR)
ClearWorkDir(s) ==
    /\ sess[s].pc = "prepare"
    /\ workDir' = [files |-> EmptyDict, initialized |-> FALSE]
    /\ sess' = [sess EXCEPT ![s].pc = "write"]
    /\ UNCHANGED runVars
    /\ UNCHANGED fnVars

\* _prepare_work_directory: the loop that writes files.items()
WriteFiles(s) ==
    /\ sess[s].pc = "write"
    /\ workDir' = [workDir EXCEPT !.files = Merge(workDir.files, sess[s].generated_files)]
    /\ sess' = [sess EXCEPT ![s].pc = "terraform"]
    /\ UNCHANGED runVars
    /\ UNCHANGED fnVars

\* terraform_validate_tool after the directory is prepared: init, validate and
\* fmt run on what the directory holds, then files.keys() are read back; a
\* missing file raises FileNotFoundError, a terraform error CalledProcessError,
\* and the report then lacks VALIDATION_SUCCESS. CodeValidatorAgent.run takes
\* the files read back as generated_files; after a failure the recovery path
\* of the graph leads to the Validator again.
TerraformValidate(s) ==
    /\ sess[s].pc = "terraform"
    /\ \E outcome \in {"ok", "error"} :
          LET files == sess[s].generated_files
              formatted == FmtFiles(workDir.files)
              readable == DOMAIN files \subseteq DOMAIN formatted
              formatted_files == [n \in DOMAIN files |-> formatted[n]]
          IN  IF outcome = "ok" /\ readable
              THEN /\ workDir' = [files |-> formatted, initialized |-> TRUE]
                   /\ sess' = [sess EXCEPT ![s].pc = "security_scanner",
                                           ![s].generated_files = formatted_files,
                                           ![s].validated = FmtFiles(files)]
              ELSE /\ workDir' = [workDir EXCEPT !.initialized = TRUE]
                   /\ sess' = [sess EXCEPT ![s].pc = "prepare"]
    /\ UNCHANGED runVars
    /\ UNCHANGED fnVars

\* terraform_security_scan_tool: tfsec runs with cwd=WORK_DIR on the files
\* that are there; the files argument is not used. SecurityScannerAgent.run
\* always passes.
SecurityScan(s) ==
    /\ sess[s].pc = "security_scanner"
    /\ sess' = [sess EXCEPT ![s].pc = "deployer", ![s].scanned = workDir.files]
    /\ UNCHANGED workDir
    /\ UNCHANGED runVars
    /\ UNCHANGED fnVars

\* terraform_apply_tool: without WORK_DIR/.terraform it returns an error; else
\* terraform apply runs with cwd=WORK_DIR on the files that are there; the
\* files argument is not used. A failed apply leads to the Validator again.
TerraformApply(s) ==
    /\ sess[s].pc = "deployer"
    /\ \E outcome \in {"ok", "error"} :
          IF workDir.initialized /\ outcome = "ok"
          THEN sess' = [sess EXCEPT ![s].pc = "idle", ![s].applied = workDir.files]
          ELSE sess' = [sess EXCEPT ![s].pc = "prepare"]
    /\ UNCHANGED workDir
    /\ UNCHANGED runVars
    /\ UNCHANGED fnVars

DirNext ==
    \E s \in Sessions :
        \/ SessionValidates(s)
        \/ ClearWorkDir(s)
        \/ WriteFiles(s)
        \/ TerraformValidate(s)
        \/ SecurityScan(s)
        \/ TerraformApply(s)

\* two sessions interleave at the granularity of the file-system operations
DirSpec == Init /\ [][DirNext]_vars

(***************************************************************************)
(* ErrorAnalyzerAgent.run as a function of the state it is called on.      *)
(***************************************************************************)
\* phrases terraform, the AWS provider and tfsec put into a failure report
ClassifierPhrases ==
    {P_EXISTS, P_SG_NOT_FOUND, P_SUBNET_REQUIRED, P_SUBNET_SET, P_REF_IAM,
     P_IAM_MISSING, P_IAM_DENIED, P_UNSUPPORTED, P_SEC_ISSUES, P_SEC_HIGH,
     P_SEC_CRITICAL, P_SEC_LOW}

\* report texts of up to MaxPhrases phrases
ReportTexts == UNION {[1..n -> ClassifierPhrases] : n \in 1..MaxPhrases}

\* a state in which the stage of the given origin has failed with the report
FailedState(report, origin) ==
    CASE origin = "validation" ->
            [validation_passed |-> FALSE, validation_report |-> report]
      [] origin = "security" ->
            [validation_passed |-> TRUE,
             validation_report |-> Report(<<P_VALID_OK>>, TRUE, EmptyDict),
             security_passed |-> FALSE, security_report |-> report]
      [] origin = "deployment" ->
            [validation_passed |-> TRUE,
             validation_report |-> Report(<<P_VALID_OK>>, TRUE, EmptyDict),
             security_passed |-> TRUE,
             security_report |-> Report(<<P_SEC_OK>>, FALSE, EmptyDict),
             deployment_passed |-> FALSE, deployment_report |-> report]

\* a flag of the state: absent, False or True
FlagValues(k) == {EmptyDict} \cup {Put(EmptyDict, k, b) : b \in BOOLEAN}

\* a report of the state: absent, empty or the given one
ReportValues(k, report) == {EmptyDict, Put(EmptyDict, k, EmptyReport), Put(EmptyDict, k, report)}

\* states with every combination of the three flags and the three reports
FlagStates ==
    { Merge(Merge(Merge(vp, sp), dp), Merge(Merge(vr, sr), dr)) :
        vp \in FlagValues("validation_passed"),
        sp \in FlagValues("security_passed"),
        dp \in FlagValues("deployment_passed"),
        vr \in ReportValues("validation_report", Report(<<P_TF_ERROR, P_EXISTS>>, FALSE, EmptyDict)),
        sr \in ReportValues("security_report", Report(<<P_SEC_ISSUES, P_SEC_LOW>>, FALSE, EmptyDict)),
        dr \in ReportValues("deployment_report", Report(<<P_TF_ERROR, P_UNSUPPORTED>>, FALSE, EmptyDict)) }

\* the states ErrorAnalyzerAgent.run is called on
\* the state the Deployer leaves when the apply of artifacts that were
\* validated and scanned fails
AfterFailedApply(files, scan, outcome) ==
    LET generated == [initial_request |-> REQUEST, generated_files |-> files]
        validated == Merge(generated, CodeValidatorAgent_run(generated, "ok"))
        scanned == Merge(validated, SecurityScannerAgent_run(validated, scan))
    IN  Merge(scanned, DeployerAgent_run(scanned, outcome))

FailedApplyStates ==
    { AfterFailedApply(Put(EmptyDict, "main.tf", code), scan, outcome) :
        code \in {HCL_RAW, HCL_FMT}, scan \in ScanOutcomes, outcome \in ApplyFailures }

AnalyzerInputs ==
    { FailedState(Report(text, FALSE, EmptyDict), origin) :
        text \in ReportTexts, origin \in {"validation", "security", "deployment"} }
    \cup FlagStates
    \cup FailedApplyStates

AnalyzerInit ==
    /\ RunInit
    /\ DirInit
    /\ call \in AnalyzerInputs
    /\ returned = NoResult

\* ErrorAnalyzerAgent.run(call) returns its patch (it may be called again)
AnalyzeError ==
    /\ call # NoCall
    /\ returned' = ErrorAnalyzerAgent_run(call)
    /\ UNCHANGED <<call, runVars, dirVars>>

AnalyzerSpec == AnalyzerInit /\ [][AnalyzeError]_vars

(***************************************************************************)
(* The graph of main.py: planner, file_architect, code_generator,          *)
(* code_validator, security_scanner, deployer and the node final_router.   *)
(***************************************************************************)
\* PlannerAgent.run: the plan of the response, the fallback plan otherwise
PlannerAgent_run(state, response) ==
    LET res == _parse_llm_json_response(response)
        plan == Get(res.parsed, "plan", "")
    IN  [plan |-> IF res.raised \/ plan = ""
                  THEN _create_fallback_structure(state["initial_request"]).plan
                  ELSE plan]

\* FileArchitectAgent.run: the queue of the response, the fallback queue otherwise
FileArchitectAgent_run(state, response) ==
    LET res == _parse_llm_json_response(response)
        files == Get(res.parsed, "files", << >>)
    IN  [file_structure |-> IF res.raised \/ files = << >>
                            THEN _create_fallback_structure(state["initial_request"]).file_structure
                            ELSE files]

generation_router(state) ==
    IF Get(state, "file_structure", << >>) # << >> /\ Len(state["file_structure"]) > 0
    THEN "code_generator"
    ELSE "code_validator"

main_validation_router(state) ==
    IF Truthy(state, "validation_passed") THEN "security_scanner" ELSE "final_router"

main_security_router(state) ==
    IF Truthy(state, "security_passed") THEN "deployer" ELSE "final_router"

\* mutant: final_router only routes, the count is left as it was
final_router_routes_only(state) == EmptyDict

\* the node final_router: the patch it returns
final_router(state) ==
    LET retry_count == Get(state, "retry_count", 0)
    IN  IF Get(state, "human_feedback", "") # "" THEN EmptyDict
        ELSE IF retry_count < 3 THEN [retry_count |-> retry_count + 1]
        ELSE EmptyDict

final_router_condition(state) ==
    LET retry_count == Get(state, "retry_count", 0)
    IN  IF Get(state, "human_feedback", "") # "" THEN "planner"
        ELSE IF retry_count < 3 THEN "planner"
        ELSE "end"

\* main.py: the inputs of the first request, and of a request that comes
\* with feedback
MainInputs ==
    { [initial_request |-> REQUEST, human_feedback |-> f, retry_count |-> 0] :
        f \in {"", FEEDBACK} }

MainInit ==
    /\ st \in MainInputs
    /\ stage = "planner"
    /\ lastStage = START
    /\ plannerRuns = 0
    /\ threadRuns = 0
    /\ fresh = TRUE
    /\ trail = << >>
    /\ rcAtFailure = 0
    /\ lastValidation = EmptyReport
    /\ streak = 0
    /\ streakOpen = TRUE
    /\ written = {}
    /\ cycleFiles = {}
    /\ cycle = NoCycle
    /\ DirInit
    /\ call = NoCall
    /\ returned = NoResult

MainPlanner ==
    /\ stage = "planner"
    /\ plannerRuns < MaxPlannerRuns
    /\ \E response \in PlannerResponses :
          st' = Merge(st, PlannerAgent_run(st, response))
    /\ stage' = "file_architect"
    /\ lastStage' = "planner"
    /\ plannerRuns' = plannerRuns + 1
    /\ UNCHANGED <<threadRuns, fresh, trail, rcAtFailure, lastValidation, streak,
                   streakOpen, written, cycleFiles, cycle, dirVars, fnVars>>

MainFileArchitect ==
    /\ stage = "file_architect"
    /\ \E response \in PlannerResponses :
          st' = Merge(st, FileArchitectAgent_run(st, response))
    /\ stage' = generation_router(st')
    /\ lastStage' = "file_architect"
    /\ UNCHANGED <<plannerRuns, threadRuns, fresh, trail, rcAtFailure, lastValidation,
                   streak, streakOpen, written, cycleFiles, cycle, dirVars, fnVars>>

MainGenerator ==
    /\ stage = "code_generator"
    /\ \E response \in CodeResponses :
          st' = Merge(st, CodeGeneratorAgent_run(st, response))
    /\ stage' = generation_router(st')
    /\ lastStage' = "code_generator"
    /\ UNCHANGED <<plannerRuns, threadRuns, fresh, trail, rcAtFailure, lastValidation,
                   streak, streakOpen, written, cycleFiles, cycle, dirVars, fnVars>>

MainValidator ==
    /\ stage = "code_validator"
    /\ \E outcome \in ValidateOutcomes :
          st' = Merge(st, CodeValidatorAgent_run(st, outcome))
    /\ stage' = main_validation_router(st')
    /\ lastStage' = "code_validator"
    /\ lastValidation' = st'["validation_report"]
    /\ UNCHANGED <<plannerRuns, threadRuns, fresh, trail, rcAtFailure, streak,
                   streakOpen, written, cycleFiles, cycle, dirVars, fnVars>>

MainSecurityScanner ==
    /\ stage = "security_scanner"
    /\ \E outcome \in ScanOutcomes :
          st' = Merge(st, SecurityScannerAgent_run(st, outcome))
    /\ stage' = main_security_router(st')
    /\ lastStage' = "security_scanner"
    /\ UNCHANGED <<plannerRuns, threadRuns, fresh, trail, rcAtFailure, lastValidation,
                   streak, streakOpen, written, cycleFiles, cycle, dirVars, fnVars>>

\* workflow.add_edge("deployer", END)
MainDeployer ==
    /\ stage = "deployer"
    /\ \E outcome \in ApplyOutcomes :
          st' = Merge(st, DeployerAgent_run(st, outcome))
    /\ stage' = END
    /\ lastStage' = "deployer"
    /\ UNCHANGED <<plannerRuns, threadRuns, fresh, trail, rcAtFailure, lastValidation,
                   streak, streakOpen, written, cycleFiles, cycle, dirVars, fnVars>>

MainFinalRouter ==
    /\ stage = "final_router"
    /\ st' = Merge(st, final_router(st))
    /\ stage' = final_router_condition(st')
    /\ lastStage' = "final_router"
    /\ UNCHANGED <<plannerRuns, threadRuns, fresh, trail, rcAtFailure, lastValidation,
                   streak, streakOpen, written, cycleFiles, cycle, dirVars, fnVars>>

MainNext ==
    \/ MainPlanner
    \/ MainFileArchitect
    \/ MainGenerator
    \/ MainValidator
    \/ MainSecurityScanner
    \/ MainDeployer
    \/ MainFinalRouter

MainSpec == MainInit /\ [][MainNext]_vars

(***************************************************************************)
(* The graph of streamlit_app.py: planner_architect, code_generator,       *)
(* code_validator, security_scanner, deployer.                             *)
(***************************************************************************)
\* streamlit_app.py: MAX_RETRIES
ST_MAX_RETRIES == 3

\* mutant: the retry bound is inclusive
st_retry_or_end_router_le(state) ==
    LET retry_count == Get(state, "retry_count", 0)
    IN  IF Get(state, "human_feedback", "") # "" \/ retry_count <= ST_MAX_RETRIES
        THEN "planner_architect"
        ELSE "end"

st_retry_or_end_router(state) ==
    LET retry_count == Get(state, "retry_count", 0)
    IN  IF Get(state, "human_feedback", "") # "" \/ retry_count < ST_MAX_RETRIES
        THEN "planner_architect"
        ELSE "end"

st_validation_router(state) ==
    IF Truthy(state, "validation_passed")
    THEN "security_scanner"
    ELSE st_retry_or_end_router(state)

st_security_router(state) ==
    IF Truthy(state, "security_passed")
    THEN "deployer"
    ELSE st_retry_or_end_router(state)

\* the state a run starts from: the inputs of "Generate Infrastructure", or
\* those inputs with the feedback of "Submit Revision" merged over them
StreamlitInputs ==
    LET inputs == [initial_request |-> REQUEST, human_feedback |-> "", retry_count |-> 0]
    IN  {inputs, Merge(inputs, RevisionInputs)}

StreamlitInit ==
    /\ st \in StreamlitInputs
    /\ stage = "planner_architect"
    /\ lastStage = START
    /\ plannerRuns = 0
    /\ threadRuns = 0
    /\ fresh = TRUE
    /\ trail = << >>
    /\ rcAtFailure = 0
    /\ lastValidation = EmptyReport
    /\ streak = 0
    /\ streakOpen = TRUE
    /\ written = {}
    /\ cycleFiles = {}
    /\ cycle = NoCycle
    /\ DirInit
    /\ call = NoCall
    /\ returned = NoResult

StPlanner ==
    /\ stage = "planner_architect"
    /\ plannerRuns < MaxPlannerRuns
    /\ \E response \in PlannerResponses :
          st' = Merge(st, PlannerArchitectAgent_run(st, response))
    /\ stage' = "code_generator"
    /\ lastStage' = "planner_architect"
    /\ plannerRuns' = plannerRuns + 1
    /\ UNCHANGED <<threadRuns, fresh, trail, rcAtFailure, lastValidation, streak,
                   streakOpen, written, cycleFiles, cycle, dirVars, fnVars>>

StGenerator ==
    /\ stage = "code_generator"
    /\ \E response \in CodeResponses :
          st' = Merge(st, CodeGeneratorAgent_run(st, response))
    /\ stage' = code_generation_router(st')
    /\ lastStage' = "code_generator"
    /\ UNCHANGED <<plannerRuns, threadRuns, fresh, trail, rcAtFailure, lastValidation,
                   streak, streakOpen, written, cycleFiles, cycle, dirVars, fnVars>>

StValidator ==
    /\ stage = "code_validator"
    /\ \E outcome \in ValidateOutcomes :
          st' = Merge(st, CodeValidatorAgent_run(st, outcome))
    /\ stage' = st_validation_router(st')
    /\ lastStage' = "code_validator"
    /\ lastValidation' = st'["validation_report"]
    /\ UNCHANGED <<plannerRuns, threadRuns, fresh, trail, rcAtFailure, streak,
                   streakOpen, written, cycleFiles, cycle, dirVars, fnVars>>

StSecurityScanner ==
    /\ stage = "security_scanner"
    /\ \E outcome \in ScanOutcomes :
          st' = Merge(st, SecurityScannerAgent_run(st, outcome))
    /\ stage' = st_security_router(st')
    /\ lastStage' = "security_scanner"
    /\ UNCHANGED <<plannerRuns, threadRuns, fresh, trail, rcAtFailure, lastValidation,
                   streak, streakOpen, written, cycleFiles, cycle, dirVars, fnVars>>

\* workflow.add_edge("deployer", END)
StDeployer ==
    /\ stage = "deployer"
    /\ \E outcome \in ApplyOutcomes :
          st' = Merge(st, DeployerAgent_run(st, outcome))
    /\ stage' = END
    /\ lastStage' = "deployer"
    /\ UNCHANGED <<plannerRuns, threadRuns, fresh, trail, rcAtFailure, lastValidation,
                   streak, streakOpen, written, cycleFiles, cycle, dirVars, fnVars>>

\* a node of the graph runs
StreamlitNext ==
    \/ StPlanner
    \/ StGenerator
    \/ StValidator
    \/ StSecurityScanner
    \/ StDeployer

\* app.stream runs the graph until END
StreamlitSpec == StreamlitInit /\ [][StreamlitNext]_vars /\ WF_vars(StreamlitNext)

(***************************************************************************)
(* Properties.                                                             *)
(***************************************************************************)
Feedback == Get(st, "human_feedback", "")

ValidationReport == Get(st, "validation_report", EmptyReport)

Category == Get(Get(st, "error_analysis", EmptyDict), "category", "")

\* C1: after every stage with conditional edges the value its router returns
\* on the state the stage left is a key of that stage's path map, so the
\* graph always has a next node or END: no reachable state is a dead end.
C1_RouterTotal ==
    /\ stage \in Nodes \cup {END}
    /\ lastStage \in RoutedNodes =>
          /\ RouterOf(lastStage, st) \in DOMAIN ConditionalEdges(lastStage)
          /\ stage = ConditionalEdges(lastStage)[RouterOf(lastStage, st)]

\* the retry-or-end decision, taken through the error analyzer's path map, ended the run
C1_Witness ==
    /\ lastStage = "error_analyzer"
    /\ RouterOf(lastStage, st) = "end"
    /\ stage = END

\* C2: with no human feedback retry_count never exceeds MAX_RETRIES.
C2_RetryBound == Feedback = "" => RetryCount <= MAX_RETRIES

\* the retry budget is used up and the run ended
C2_Witness == Feedback = "" /\ RetryCount = MAX_RETRIES /\ stage = END

\* C3: human feedback grants one additional attempt only: retry_count never
\* exceeds MAX_RETRIES + 1.
C3_FeedbackOneAttempt == RetryCount <= MAX_RETRIES + 1

\* C4: with no human feedback every session eventually reaches END, whatever
\* the collaborators return.
C4_Terminates == <>(stage = END)

\* C5: END is reached only after the CostEstimator of a successful deployment
\* (validation, security, deployment and cost all passed), or from the
\* retry-or-end decision with needs_full_retry, retry_count >= MAX_RETRIES and
\* no human feedback.
C5_TerminalOnlyTwoWays ==
    stage = END =>
        \/ /\ lastStage = "cost_estimator"
           /\ Truthy(st, "validation_passed")
           /\ Truthy(st, "security_passed")
           /\ Truthy(st, "deployment_passed")
           /\ Truthy(st, "cost_passed")
        \/ /\ lastStage = "error_analyzer"
           /\ Truthy(st, "needs_full_retry")
           /\ RetryCount >= MAX_RETRIES
           /\ Feedback = ""

\* a run that ended on exhausted retries after a deployment had failed
C5_Witness ==
    /\ stage = END
    /\ lastStage = "error_analyzer"
    /\ RetryCount = MAX_RETRIES
    /\ Has(st, "deployment_passed")
    /\ ~Truthy(st, "deployment_passed")

\* C6: with no human feedback the Planner runs at most MAX_RETRIES + 1 times
\* in a session.
C6_PlannerRunsBound == Feedback = "" => plannerRuns <= MAX_RETRIES + 1

\* the Planner ran MAX_RETRIES + 1 times and the session ended
C6_Witness == Feedback = "" /\ plannerRuns = MAX_RETRIES + 1 /\ stage = END

C8_TargetedFixKeepsRetryCount ==
    /\ [](/\ (trail = <<"code_validator", "error_analyzer">>
                /\ Category = "resource_exists")
             => stage = "targeted_fixer"
          /\ lastStage = "targeted_fixer" => stage = "code_validator"
          /\ trail = <<"code_validator", "error_analyzer", "targeted_fixer",
                       "code_validator">>
             => RetryCount = rcAtFailure)
    /\ [][(stage \in {"error_analyzer", "targeted_fixer", "code_validator"})
             => (Get(st', "retry_count", 0) = RetryCount)]_vars

\* after one retry, a resource_exists failure was repaired by one targeted fix
C8_Witness ==
    /\ trail = <<"code_validator", "error_analyzer", "targeted_fixer", "code_validator">>
    /\ Category = "resource_exists"
    /\ Truthy(st, "validation_passed")
    /\ Truthy(st, "targeted_fix_applied")
    /\ RetryCount = 1

\* C9: only the Planner changes retry_count; a Planner run leaves it or adds
\* exactly 1, and adds 1 only when re-entered after a failure
\* (validation_report non-empty and validation_passed false); it never decreases.
C9_RetryCountOnlyByPlanner ==
    [][LET rc == RetryCount
           rcNext == Get(st', "retry_count", 0)
       IN  /\ (stage # "planner_architect") => (rcNext = rc)
           /\ (stage = "planner_architect") =>
                 (/\ rcNext \in {rc, rc + 1}
                  /\ (rcNext = rc + 1)
                        <=> (NonEmpty(ValidationReport) /\ ~Truthy(st, "validation_passed"))
                  /\ (rcNext = rc + 1)
                        => (lastStage = "error_analyzer" /\ plannerRuns >= 1))
           /\ rcNext >= rc]_vars

\* the Planner was re-entered after a failure and raised retry_count to 2
C9_Witness ==
    /\ lastStage = "planner_architect"
    /\ plannerRuns = 3
    /\ RetryCount = 2

\* C10: a Generator run on a non-empty queue removes exactly the head of
\* pending file_structure and stores one artifact under the head's name,
\* leaving the other artifacts alone; the Generator follows itself while the
\* queue is non-empty and the Validator follows it only on the empty queue.
C10_GeneratorPopsHead ==
    /\ [][(stage = "code_generator" /\ st["file_structure"] # << >>) =>
            (LET queue == st["file_structure"]
                 name == Head(queue).file_name
                 before == Get(st, "generated_files", EmptyDict)
                 after == st'["generated_files"]
             IN  /\ st'["file_structure"] = Tail(queue)
                 /\ DOMAIN after = DOMAIN before \cup {name}
                 /\ after[name] \in {HCL_RAW, HCL_FMT}
                 /\ \A k \in DOMAIN before \ {name} : after[k] = before[k]
                 /\ stage' = IF Tail(queue) # << >>
                             THEN "code_generator" ELSE "code_validator")]_vars
    /\ []((lastStage = "code_generator" /\ stage = "code_validator")
             => st["file_structure"] = << >>)
    /\ [](stage = "code_generator" => st["file_structure"] # << >>)

\* the Generator stored the first file of a two-file queue and follows itself
C10_Witness ==
    /\ lastStage = "code_generator"
    /\ stage = "code_generator"
    /\ Len(st["file_structure"]) = 1
    /\ Head(st["file_structure"]).file_name = "main.tf"
    /\ DOMAIN st["generated_files"] = {"provider.tf"}

GeneratedFiles == Get(st, "generated_files", EmptyDict)

\* C11: no stage run removes a key of generated_files: the key set after a
\* step contains the key set before it.
C11_ArtifactKeysGrow ==
    [][DOMAIN GeneratedFiles \subseteq DOMAIN Get(st', "generated_files", EmptyDict)]_vars

\* a targeted fix added main.tf to a map that held vpc.tf only
C11_Witness ==
    /\ lastStage = "targeted_fixer"
    /\ DOMAIN GeneratedFiles = {"vpc.tf", "main.tf"}

PassedFlags == {"validation_passed", "security_passed", "deployment_passed", "cost_passed"}

\* C12: in the final state handed to the caller every *_passed flag that is
\* true was written by its stage since the last Planner run: no true value
\* of an earlier planning cycle is observed.
C12_NoStalePassedFlag ==
    stage = END => \A f \in PassedFlags : Truthy(st, f) => f \in written

\* C13: a new request starts from its inputs alone (retry_count 0, no queue,
\* no artifacts, no report and no flag of an earlier request), also when the
\* session already ran a request, and the first Planner run of a request
\* leaves retry_count at 0.
C13_NewRequestStartsFresh ==
    /\ [][(stage = END /\ stage' = "planner_architect"
              /\ Get(st', "human_feedback", "") = "")
            => (/\ DOMAIN st' = {"initial_request", "human_feedback", "retry_count"}
                /\ st'["retry_count"] = 0
                /\ st'["initial_request"] = REQUEST)]_vars
    /\ []((lastStage = "planner_architect" /\ plannerRuns = 1 /\ Feedback = "")
             => (/\ RetryCount = 0
                 /\ ~Has(st, "generated_files")
                 /\ ~Has(st, "validation_report")
                 /\ \A f \in PassedFlags : ~Has(st, f)))

\* the first Planner run of a request made after an earlier request of the
\* session had used up its retries
C13_Witness ==
    /\ lastStage = "planner_architect"
    /\ plannerRuns = 1
    /\ threadRuns = MAX_RETRIES + 2
    /\ Feedback = ""
    /\ RetryCount = 0

FileNames(queue) == [i \in DOMAIN queue |-> queue[i].file_name]

Malformed(response) ==
    \/ ~response.json
    \/ Get(response.obj, "plan", "") = ""
    \/ Get(response.obj, "files", << >>) = << >>

\* C14: whatever the text-generation service answers, the Planner returns a
\* patch with a non-empty file_structure; for an answer that cannot be parsed
\* or lacks the plan or the files it is the fixed fallback queue
\* (provider.tf, main.tf). So the queue is non-empty after every Planner run.
C14_PlannerFallback ==
    /\ stage = "planner_architect" =>
          \A response \in PlannerResponses :
              LET patch == PlannerArchitectAgent_run(st, response)
              IN  /\ DOMAIN patch = {"plan", "file_structure", "retry_count"}
                  /\ patch.file_structure # << >>
                  /\ Malformed(response) =>
                        /\ FileNames(patch.file_structure) = <<"provider.tf", "main.tf">>
                        /\ patch = Merge(_create_fallback_structure(st["initial_request"]),
                                         [retry_count |-> patch.retry_count])
                  /\ ~Malformed(response) => patch.file_structure = response.obj.files
    /\ lastStage = "planner_architect" =>
          (st["file_structure"] # << >> /\ stage = "code_generator")

\* a retry whose plan is the fallback queue
C14_Witness ==
    /\ lastStage = "planner_architect"
    /\ plannerRuns = 2
    /\ FileNames(st["file_structure"]) = <<"provider.tf", "main.tf">>
    /\ Has(st, "generated_files")
    /\ DOMAIN st["generated_files"] = {"vpc.tf"}

\* the state after a passing Validator run on state s
Validated(s) == Merge(s, CodeValidatorAgent_run(s, "ok"))

\* C15: a second passing Validator run right after a passing one changes
\* nothing: validation_passed stays true and the state (artifacts map and
\* validation_report included) is the one the first run left.
C15_ValidatorIdempotent ==
    stage = "code_validator" =>
        LET once == Validated(st)
            twice == Validated(once)
        IN  /\ Truthy(once, "validation_passed")
            /\ Truthy(twice, "validation_passed")
            /\ twice = once
            /\ twice["generated_files"] = once["generated_files"]
            /\ twice["validation_report"] = once["validation_report"]

\* the Validator is about to run on artifacts that are not in canonical
\* format after an earlier failed validation: the first run rewrites them
C15_Witness ==
    /\ stage = "code_validator"
    /\ Has(st, "validation_report")
    /\ HCL_RAW \in Range(st["generated_files"])
    /\ Validated(st)["generated_files"] # st["generated_files"]
    /\ Validated(st)["validation_report"] # st["validation_report"]

SkipReports ==
    { Report(<<"Skipping deployment because validation failed.">>, FALSE, EmptyDict),
      Report(<<"Skipping deployment because security scan failed.">>, FALSE, EmptyDict) }

\* C16: the Deployer's result comes from terraform apply only in a state with
\* validation_passed and security_passed both true; in any other state its
\* patch is a deployment_report that explains the skip and nothing else, the
\* same whatever terraform apply would have answered. Whenever the graph runs
\* the Deployer both flags are true.
C16_DeployerPrecondition ==
    /\ Has(st, "generated_files") =>
          \A outcome \in ApplyOutcomes :
              LET patch == DeployerAgent_run(st, outcome)
              IN  IF Truthy(st, "validation_passed") /\ Truthy(st, "security_passed")
                  THEN /\ patch["deployment_report"]
                             = terraform_apply_tool(st["generated_files"], outcome)
                       /\ Has(patch, "deployment_passed")
                  ELSE /\ DOMAIN patch = {"deployment_report"}
                       /\ patch["deployment_report"] \in SkipReports
                       /\ \A other \in ApplyOutcomes :
                             DeployerAgent_run(st, other) = patch
    /\ stage = "deployer" =>
          (Truthy(st, "validation_passed") /\ Truthy(st, "security_passed"))

\* the state a failed apply left: validation_passed is cleared, and a
\* Deployer run on it would only report the skip
C16_Witness ==
    /\ lastStage = "deployer"
    /\ ~Truthy(st, "validation_passed")
    /\ Truthy(st, "security_passed")
    /\ "deployment_passed" \in written
    /\ DOMAIN DeployerAgent_run(st, "ok") = {"deployment_report"}

\* C17: a failed apply leaves deployment_passed false, validation_passed false
\* and validation_report = the Validator's report followed by the deployment
\* report; the ErrorAnalyzer runs next and classifies that report as a
\* validation failure; when it asks for a full retry the Planner is re-entered
\* (if retry_count < MAX_RETRIES, else the run ends) and raises retry_count.
C17_DeployFailureIsValidationFailure ==
    /\ []((lastStage = "deployer" /\ ~Truthy(st, "deployment_passed")) =>
             (/\ Has(st, "deployment_passed")
              /\ Has(st, "validation_passed") /\ ~st["validation_passed"]
              /\ st["validation_report"]
                    = CombinedReport(lastValidation, st["deployment_report"])
              /\ stage = "error_analyzer"
              /\ SelectedError(st).error_type = "validation"
              /\ SelectedError(st).error_report = st["validation_report"]))
    /\ [][(stage = "error_analyzer" /\ trail = <<"deployer">>) =>
             (stage' = IF ~Truthy(st', "needs_full_retry") THEN "targeted_fixer"
                       ELSE IF Feedback # "" \/ RetryCount < MAX_RETRIES
                            THEN "planner_architect" ELSE END)]_vars
    /\ [][(stage = "planner_architect" /\ trail = <<"deployer", "error_analyzer">>) =>
             (Get(st', "retry_count", 0) = RetryCount + 1)]_vars

\* the Planner was re-entered once, after a failed apply, and counted a retry
C17_Witness ==
    /\ lastStage = "planner_architect"
    /\ plannerRuns = 2
    /\ RetryCount = 1
    /\ Has(st, "deployment_passed") /\ ~st["deployment_passed"]
    /\ P_DEPLOY_SEP \in Range(ValidationReport.text)

SecurityReport == Get(st, "security_report", EmptyReport)

\* C18: every SecurityScanner run sets security_passed true, and sets
\* security_warning true when the scan did not report success; the Deployer
\* always runs next, so a scan with issues never blocks the deployment.
C18_ScannerAdvisory ==
    /\ stage = "security_scanner" =>
          \A outcome \in ScanOutcomes :
              LET patch == SecurityScannerAgent_run(st, outcome)
                  report == terraform_security_scan_tool(st["generated_files"], outcome)
              IN  /\ patch["security_report"] = report
                  /\ patch["security_passed"] = TRUE
                  /\ IF Contains(report, SECURITY_SUCCESS)
                     THEN DOMAIN patch = {"security_report", "security_passed"}
                     ELSE /\ DOMAIN patch = {"security_report", "security_passed",
                                             "security_warning"}
                          /\ patch["security_warning"] = TRUE
                  /\ NextNode("security_scanner", Merge(st, patch)) = "deployer"
    /\ lastStage = "security_scanner" =>
          /\ Truthy(st, "security_passed")
          /\ stage = "deployer"
          /\ ~Contains(SecurityReport, SECURITY_SUCCESS) => Truthy(st, "security_warning")

\* a scan that reported issues of severity HIGH is followed by the Deployer
C18_Witness ==
    /\ lastStage = "security_scanner"
    /\ P_SEC_HIGH \in Range(SecurityReport.text)
    /\ Truthy(st, "security_passed")
    /\ Truthy(st, "security_warning")
    /\ stage = "deployer"

\* C19: under the strict policy security_passed equals the scan result: after
\* a scan that reported issues security_passed is false, the ErrorAnalyzer
\* runs next and the Deployer does not run on those artifacts.
C19_StrictScanBlocks ==
    (lastStage = "security_scanner" /\ P_SEC_ISSUES \in Range(SecurityReport.text)) =>
        (~Truthy(st, "security_passed") /\ stage = "error_analyzer")

CostReport == Get(st, "cost_report", EmptyReport)

\* C20: whatever the cost estimate answers (no deployed resources included,
\* which gives the report "Cost estimation unavailable"), a CostEstimator run
\* sets cost_passed true, writes cost_report and cost_passed only, and is
\* followed by END.
C20_CostNeverFails ==
    /\ [][(stage = "cost_estimator") =>
             (/\ st'["cost_passed"] = TRUE
              /\ \E outcome \in CostOutcomes :
                    st'["cost_report"]
                       = terraform_cost_estimate_tool(st["generated_files"], outcome)
              /\ DOMAIN st' = DOMAIN st \cup {"cost_report", "cost_passed"}
              /\ \A k \in DOMAIN st \ {"cost_report", "cost_passed"} : st'[k] = st[k]
              /\ stage' = END)]_vars
    /\ [](stage = "cost_estimator" =>
             \A outcome \in CostOutcomes :
                 CostEstimatorAgent_run(st, outcome)["cost_passed"] = TRUE)
    /\ [](lastStage = "cost_estimator" => (Truthy(st, "cost_passed") /\ stage = END))

\* the run ended after a cost estimate that was unavailable
C20_Witness ==
    /\ lastStage = "cost_estimator"
    /\ stage = END
    /\ Contains(CostReport, COST_UNAVAILABLE)
    /\ Truthy(st, "cost_passed")

\* C21: a TargetedFixer run writes the fixed code under the key main.tf of
\* generated_files and touches no other artifact: every other key keeps its
\* content, no key is removed; retry_count, plan, file_structure and every
\* state field other than generated_files and the targeted_fix_* fields are
\* unchanged; targeted_fix_applied is true afterwards; the next stage is the
\* Validator.
C21_TargetedFixFrame ==
    [][(stage = "targeted_fixer") =>
          (LET before == GeneratedFiles
               after == Get(st', "generated_files", EmptyDict)
               fixerKeys == {"generated_files", "targeted_fix_applied",
                             "targeted_fix_strategy", "targeted_fix_description"}
           IN  /\ DOMAIN after = DOMAIN before \cup {"main.tf"}
               /\ \A k \in DOMAIN before \ {"main.tf"} : after[k] = before[k]
               /\ \E response \in CodeResponses :
                     after["main.tf"] = _clean_markdown_code_fences(response)
               /\ Get(st', "retry_count", 0) = RetryCount
               /\ Get(st', "plan", "") = Get(st, "plan", "")
               /\ Get(st', "file_structure", << >>) = Get(st, "file_structure", << >>)
               /\ \A k \in DOMAIN st \ fixerKeys : k \in DOMAIN st' /\ st'[k] = st[k]
               /\ DOMAIN st' \subseteq DOMAIN st \cup fixerKeys
               /\ Truthy(st', "targeted_fix_applied")
               /\ stage' = "code_validator")]_vars

\* a targeted fix replaced the formatted main.tf and left provider.tf as the
\* Validator had formatted it
C21_Witness ==
    /\ lastStage = "targeted_fixer"
    /\ stage = "code_validator"
    /\ DOMAIN GeneratedFiles = {"provider.tf", "main.tf"}
    /\ GeneratedFiles["provider.tf"] = HCL_FMT
    /\ GeneratedFiles["main.tf"] = HCL_RAW
    /\ Truthy(st, "targeted_fix_applied")

DeploymentReport == Get(st, "deployment_report", EmptyReport)

\* the run ended without success: the ErrorAnalyzer gave up
EndedInFailure == stage = END /\ lastStage = "error_analyzer"

C23_WorkDirOwned ==
    \A s \in Sessions :
        /\ (sess[s].pc = "deployer") => (sess[s].scanned = sess[s].validated)
        /\ (sess[s].pc = "idle" /\ sess[s].applied # EmptyDict)
              => (/\ sess[s].scanned = sess[s].validated
                  /\ sess[s].applied = sess[s].validated)

\* C24: every artifact submitted to the Validator in a planning cycle was
\* generated or fixed during that cycle (since the last Planner run): when the
\* Validator is about to run, the keys of generated_files are among the names
\* generated or fixed in the cycle.
C24_ArtifactsOfThisCycle ==
    (stage = "code_validator") => (DOMAIN GeneratedFiles \subseteq cycleFiles)

\* the transition table of the specification: the stage that follows node in
\* state s (the state after node has run)
TableNext(node, s) ==
    CASE node = "planner_architect" -> "code_generator"
      [] node = "code_generator" ->
            IF Get(s, "file_structure", << >>) # << >>
            THEN "code_generator" ELSE "code_validator"
      [] node = "code_validator" ->
            IF Truthy(s, "validation_passed") THEN "security_scanner" ELSE "error_analyzer"
      [] node = "security_scanner" ->
            IF Truthy(s, "security_passed") THEN "deployer" ELSE "error_analyzer"
      [] node = "deployer" ->
            IF Truthy(s, "deployment_passed") THEN "cost_estimator" ELSE "error_analyzer"
      [] node = "error_analyzer" ->
            IF ~Truthy(s, "needs_full_retry") THEN "targeted_fixer"
            ELSE IF Get(s, "human_feedback", "") # ""
                    \/ Get(s, "retry_count", 0) < MAX_RETRIES
                 THEN "planner_architect"
                 ELSE END
      [] node = "targeted_fixer" -> "code_validator"
      [] node = "cost_estimator" -> END

\* C25: every step of the graph follows the transition table: the stage that
\* runs after a node is the one the table gives for that node and the state
\* the node left.
C25_TransitionTable ==
    [][(stage # END) => (stage' = TableNext(stage, st'))]_vars

\* with the retries exhausted, the ErrorAnalyzer of a revision hands over to
\* the Planner because human_feedback is set
C25_Witness ==
    /\ lastStage = "error_analyzer"
    /\ stage = "planner_architect"
    /\ Truthy(st, "needs_full_retry")
    /\ RetryCount >= MAX_RETRIES
    /\ Feedback # ""

\* the report ErrorAnalyzerAgent.run selected in the call, and its origin
CallReport == SelectedError(call).error_report

CallOrigin == SelectedError(call).error_type

\* the order of the rules as the specification gives it
ClaimedOrder ==
    <<"resource_exists", "missing_subnet_group", "missing_security_group",
      "invalid_reference", "missing_iam">>

\* the rule of the given category matches the report
RuleMatches(category, report) ==
    \E i \in DOMAIN error_patterns :
        /\ error_patterns[i].category = category
        /\ _matches_pattern(report, error_patterns[i])

\* the category of the earliest rule of ClaimedOrder that matches, if any
EarliestMatch(report) ==
    LET hits == {k \in DOMAIN ClaimedOrder : RuleMatches(ClaimedOrder[k], report)}
    IN  IF hits = {} THEN "unknown"
        ELSE ClaimedOrder[CHOOSE k \in hits : \A j \in hits : k <= j]

\* C26: for a non-empty report of validation or deployment origin the category
\* returned is that of the earliest matching rule in the order resource_exists,
\* missing_subnet_group, missing_security_group, invalid_reference,
\* missing_iam (unknown when none matches); a text with both "already exists"
\* and "security group ... not found" gives resource_exists, a text matching a
\* reference keyword and the IAM rule gives invalid_reference; and
\* needs_full_retry is false exactly when one of the five rules matched.
C26_FirstMatchWins ==
    (returned # NoResult /\ CallOrigin \in {"validation", "deployment"} /\ NonEmpty(CallReport))
        => (/\ returned.error_analysis.category = EarliestMatch(CallReport)
            /\ (returned.needs_full_retry = FALSE) <=> (EarliestMatch(CallReport) # "unknown")
            /\ (ContainsLower(CallReport, "already exists")
                  /\ RuleMatches("missing_security_group", CallReport))
                  => (returned.error_analysis.category = "resource_exists")
            /\ (RuleMatches("invalid_reference", CallReport)
                  /\ RuleMatches("missing_iam", CallReport)
                  /\ ~RuleMatches("resource_exists", CallReport)
                  /\ ~RuleMatches("missing_subnet_group", CallReport)
                  /\ ~RuleMatches("missing_security_group", CallReport))
                  => (returned.error_analysis.category = "invalid_reference"))

\* a report naming the missing security group before the existing bucket is
\* classified resource_exists
C26_Witness ==
    /\ returned # NoResult
    /\ CallOrigin = "validation"
    /\ CallReport.text = <<P_SG_NOT_FOUND, P_EXISTS>>
    /\ returned.error_analysis.category = "resource_exists"
    /\ returned.needs_full_retry = FALSE

\* the analysis ErrorAnalyzerAgent.run returned
Analysis == returned.error_analysis

\* the phrase is a line of the report
HasPhrase(report, p) == \E i \in DOMAIN report.text : report.text[i] = p

\* C27: the classification depends on the report text and its origin only
\* (calling again on the same state returns the same), and: a validation or
\* deployment report containing resource "aws_s3_bucket" "data" already exists
\* gives resource_exists / add_random_suffix with resource aws_s3_bucket.data;
\* one containing Security group sg-1 not found, with no earlier rule
\* matching, gives missing_security_group / add_security_group; a security
\* report containing Severity: HIGH gives strategy full_retry; a validation
\* or deployment report no rule matches gives unknown / full_retry.
C27_ClassifierOnLiterals ==
    /\ []((returned # NoResult /\ NonEmpty(CallReport)) =>
            (/\ (CallOrigin # "security" /\ HasPhrase(CallReport, P_EXISTS))
                  => (/\ Analysis.category = "resource_exists"
                      /\ Analysis.strategy = "add_random_suffix"
                      /\ Analysis.resource = "aws_s3_bucket.data")
             /\ (CallOrigin # "security" /\ HasPhrase(CallReport, P_SG_NOT_FOUND)
                   /\ ~RuleMatches("resource_exists", CallReport)
                   /\ ~RuleMatches("missing_subnet_group", CallReport))
                  => (/\ Analysis.category = "missing_security_group"
                      /\ Analysis.strategy = "add_security_group")
             /\ (CallOrigin = "security" /\ HasPhrase(CallReport, P_SEC_HIGH))
                  => (Analysis.strategy = "full_retry")
             /\ (CallOrigin # "security"
                   /\ \A i \in DOMAIN error_patterns :
                         ~_matches_pattern(CallReport, error_patterns[i]))
                  => (/\ Analysis.category = "unknown"
                      /\ Analysis.strategy = "full_retry")))
    /\ [][(returned # NoResult) => (returned' = returned)]_vars

\* a deployment report with the bucket error on its second line was classified
C27_Witness ==
    /\ returned # NoResult
    /\ CallOrigin = "deployment"
    /\ CallReport.text = <<P_UNSUPPORTED, P_EXISTS>>
    /\ Analysis.resource = "aws_s3_bucket.data"
    /\ Analysis.strategy = "add_random_suffix"

CategoryOfField(k) ==
    CASE k = "validation_report" -> "resource_exists"
      [] k = "security_report" -> "security_warning"
      [] k = "deployment_report" -> "unknown"

\* the ErrorAnalyzer classified the report of field k of the call, or found
\* it empty
AnalyzedField(k) ==
    IF NonEmpty(Get(call, k, EmptyReport))
    THEN /\ Has(returned.error_analysis, "category")
         /\ returned.error_analysis.category = CategoryOfField(k)
         /\ returned.needs_full_retry = (CategoryOfField(k) # "resource_exists")
    ELSE /\ returned.needs_full_retry = TRUE
         /\ ~Has(returned.error_analysis, "category")

\* C29: the ErrorAnalyzer classifies validation_report if validation_passed is
\* not true, else security_report if security_passed is not true, else
\* deployment_report if deployment_passed is not true; when the selected report
\* is empty (or no flag is false) it returns needs_full_retry true and no
\* classification.
C29_ReportPriority ==
    (returned # NoResult /\ call \in FlagStates) =>
        (IF ~Truthy(call, "validation_passed") THEN AnalyzedField("validation_report")
         ELSE IF ~Truthy(call, "security_passed") THEN AnalyzedField("security_report")
         ELSE IF ~Truthy(call, "deployment_passed") THEN AnalyzedField("deployment_report")
         ELSE /\ returned.needs_full_retry = TRUE
              /\ ~Has(returned.error_analysis, "category"))

\* validation passed, scan and deployment failed, all three reports present:
\* the security report was classified
C29_Witness ==
    /\ returned # NoResult
    /\ call \in FlagStates
    /\ Truthy(call, "validation_passed")
    /\ Has(call, "security_passed") /\ ~Truthy(call, "security_passed")
    /\ Has(call, "deployment_passed") /\ ~Truthy(call, "deployment_passed")
    /\ NonEmpty(Get(call, "validation_report", EmptyReport))
    /\ NonEmpty(Get(call, "security_report", EmptyReport))
    /\ NonEmpty(Get(call, "deployment_report", EmptyReport))
    /\ returned.error_analysis.category = "security_warning"

\* the patches the agent of a node may return in a state
NodePatches(node, state) ==
    CASE node = "planner_architect" ->
            {PlannerArchitectAgent_run(state, r) : r \in PlannerResponses}
      [] node = "code_generator" ->
            {CodeGeneratorAgent_run(state, r) : r \in CodeResponses}
      [] node = "code_validator" ->
            {CodeValidatorAgent_run(state, o) : o \in ValidateOutcomes}
      [] node = "security_scanner" ->
            {SecurityScannerAgent_run(state, o) : o \in ScanOutcomes}
      [] node = "deployer" ->
            {DeployerAgent_run(state, o) : o \in ApplyOutcomes}
      [] node = "cost_estimator" ->
            {CostEstimatorAgent_run(state, o) : o \in CostOutcomes}
      [] node = "error_analyzer" -> {ErrorAnalyzerAgent_run(state)}
      [] node = "targeted_fixer" ->
            {TargetedFixAgent_run(state, r) : r \in CodeResponses}

\* the state fields the router of a node reads
ReadBy(node) ==
    CASE node = "code_generator" -> {"file_structure"}
      [] node = "code_validator" -> {"validation_passed"}
      [] node = "error_analyzer" -> {"needs_full_retry", "retry_count", "human_feedback"}
      [] node = "security_scanner" -> {"security_passed"}
      [] node = "deployer" -> {"deployment_passed"}
      [] OTHER -> {}

\* the state with the given fields only
Restrict(state, fields) == [k \in DOMAIN state \cap fields |-> state[k]]

\* C30: routers have no side effects and are functions of the state: after a
\* step of the graph the state is the state before with the agent's patch
\* merged and nothing else, whichever router was evaluated; the next stage is
\* the router's value on that state; and in every state every router's value
\* (the retry-or-end decision included) is determined by the fields it reads.
C30_RoutersPure ==
    /\ [][(stage # END) =>
             (/\ \E patch \in NodePatches(stage, st) : st' = Merge(st, patch)
              /\ stage' = NextNode(stage, st'))]_vars
    /\ [](/\ \A node \in RoutedNodes :
                RouterOf(node, st) = RouterOf(node, Restrict(st, ReadBy(node)))
          /\ _retry_or_end_router(st)
                = _retry_or_end_router(Restrict(st, {"retry_count", "human_feedback"})))

\* the retry-or-end decision was evaluated and sent the run back to the
\* Planner; retry_count is still what the Planner had set
C30_Witness ==
    /\ lastStage = "error_analyzer"
    /\ stage = "planner_architect"
    /\ Truthy(st, "needs_full_retry")
    /\ RetryCount = 2
    /\ rcAtFailure = 2

\* C31: whenever the ErrorAnalyzer is about to run, validation_passed is not
\* true, so the report it selects is validation_report with origin validation;
\* the categories security_issues and security_warning never appear in
\* error_analysis.
C31_AnalyzerSeesValidationOnly ==
    /\ (stage = "error_analyzer") =>
          (/\ ~Truthy(st, "validation_passed")
           /\ SelectedError(st).error_type = "validation"
           /\ SelectedError(st).error_report = ValidationReport)
    /\ Category \notin {"security_issues", "security_warning"}

\* the ErrorAnalyzer is entered after a failed apply that followed a scan with
\* issues: the flags of scan and validation had both been true
C31_Witness ==
    /\ stage = "error_analyzer"
    /\ lastStage = "deployer"
    /\ Truthy(st, "security_passed")
    /\ Truthy(st, "security_warning")
    /\ Has(st, "deployment_passed") /\ ~Truthy(st, "deployment_passed")
    /\ ~Truthy(st, "validation_passed")

\* C32: every Deployer run of the graph starts with validation_passed and
\* security_passed both true, both written since the last Planner run; it
\* reports what terraform apply answered, never a skip, and writes
\* deployment_passed in the same step, so the value deployment_router reads
\* is the one of this run.
C32_DeployerNeverSkips ==
    [][(stage = "deployer") =>
          (/\ Truthy(st, "validation_passed") /\ Truthy(st, "security_passed")
           /\ {"validation_passed", "security_passed"} \subseteq written
           /\ lastStage = "security_scanner"
           /\ Get(st', "deployment_report", EmptyReport) \notin SkipReports
           /\ \E outcome \in ApplyOutcomes :
                 LET patch == DeployerAgent_run(st, outcome)
                 IN  /\ st' = Merge(st, patch)
                     /\ Has(patch, "deployment_passed")
                     /\ patch["deployment_passed"]
                           = Contains(patch["deployment_report"], APPLY_SUCCESS)
           /\ stage' = (IF st'["deployment_passed"] THEN "cost_estimator"
                        ELSE "error_analyzer"))]_vars

\* the Deployer ran in the first planning cycle after a targeted fix had
\* repaired a failure, and the apply succeeded
C32_Witness ==
    /\ lastStage = "deployer"
    /\ stage = "cost_estimator"
    /\ Truthy(st, "deployment_passed")
    /\ Truthy(st, "targeted_fix_applied")
    /\ DeploymentReport \notin SkipReports
    /\ RetryCount = 0

\* C33: when the Deployer is about to apply, the stage before it was the
\* SecurityScanner, the most recent Validator run passed, and generated_files
\* is the map of formatted files that run returned (every content in canonical
\* form); the SecurityScanner runs right after the Validator and leaves
\* generated_files unchanged. So nothing a Generator or TargetedFixer wrote is
\* applied without a passing validation in between.
C33_AppliedIsValidated ==
    /\ []((stage = "deployer") =>
            (/\ lastStage = "security_scanner"
             /\ Contains(lastValidation, VALIDATION_SUCCESS)
             /\ ValidationReport = lastValidation
             /\ GeneratedFiles = lastValidation.json
             /\ \A k \in DOMAIN GeneratedFiles : Fmt(GeneratedFiles[k]) = GeneratedFiles[k]))
    /\ [][(stage = "security_scanner") =>
             (/\ lastStage = "code_validator"
              /\ Get(st', "generated_files", EmptyDict) = GeneratedFiles)]_vars

\* the apply that follows a targeted fix: the fixed main.tf is there as the
\* Validator formatted it
C33_Witness ==
    /\ stage = "deployer"
    /\ Truthy(st, "targeted_fix_applied")
    /\ "main.tf" \in cycleFiles
    /\ DOMAIN GeneratedFiles = {"vpc.tf", "main.tf"}
    /\ GeneratedFiles["main.tf"] = HCL_FMT
    /\ GeneratedFiles = lastValidation.json

\* C34: the TargetedFixer is entered only right after an ErrorAnalyzer run
\* that set needs_full_retry False; error_analysis is then the analysis
\* record of the report that failed last (not the "No error report" form), its
\* strategy is one of add_random_suffix, add_subnet_group,
\* add_security_group, fix_reference, add_iam_role; every row of
\* error_patterns carries one of these, and the same holds for whichever
\* classifier phrase the failure report consists of.
C34_FixerReadsFixStrategy ==
    (stage = "targeted_fixer") =>
        LET sel == SelectedError(st)
            res == _analyze_error_pattern(sel.error_report, sel.error_type)
            fix == {"add_random_suffix", "add_subnet_group", "add_security_group",
                    "fix_reference", "add_iam_role"}
        IN  /\ lastStage = "error_analyzer"
            /\ Has(st, "needs_full_retry") /\ st["needs_full_retry"] = FALSE
            /\ NonEmpty(sel.error_report)
            /\ res[1]
            /\ st["error_analysis"] = res[2]
            /\ Has(st["error_analysis"], "strategy")
            /\ st["error_analysis"].strategy \in fix
            /\ st["fix_strategy"] = st["error_analysis"].strategy
            /\ \A response \in CodeResponses :
                  TargetedFixAgent_run(st, response)["targeted_fix_strategy"]
                      = st["error_analysis"].strategy
            /\ \A i \in DOMAIN error_patterns : error_patterns[i].strategy \in fix
            /\ \A p \in ClassifierPhrases : \A origin \in {"validation", "security", "deployment"} :
                  LET failed == Merge(st, FailedState(Report(<<p>>, FALSE, EmptyDict), origin))
                      after == Merge(failed, ErrorAnalyzerAgent_run(failed))
                  IN  (error_analysis_router(after) = "targeted_fixer")
                          => (/\ Has(after["error_analysis"], "strategy")
                              /\ after["error_analysis"].strategy \in fix)

C34_Witness ==
    /\ stage = "code_validator"
    /\ lastStage = "targeted_fixer"
    /\ st["targeted_fix_strategy"] = "add_random_suffix"
    /\ st["error_analysis"].category = "resource_exists"
    /\ ~Truthy(st, "needs_full_retry")
    /\ Has(st, "deployment_passed") /\ ~Truthy(st, "deployment_passed")

\* C35: security_warning is never False in the state and, once True, stays
\* True over every stage: a SecurityScanner run on clean artifacts leaves
\* it as it was, so a session can end with security_warning True and a
\* security report of no issues.
C35_WarningSticky ==
    /\ [](Has(st, "security_warning") => (st["security_warning"] = TRUE))
    /\ [][Truthy(st, "security_warning") => Truthy(st', "security_warning")]_vars
    /\ [][((stage = "security_scanner") /\ Truthy(st, "security_warning"))
             => (/\ Truthy(st', "security_warning")
                 /\ Truthy(st', "security_passed")
                 /\ stage' = "deployer")]_vars

C35_Witness ==
    /\ stage = END
    /\ lastStage = "cost_estimator"
    /\ Truthy(st, "security_warning")
    /\ Contains(SecurityReport, SECURITY_SUCCESS)
    /\ Truthy(st, "deployment_passed")
    /\ Truthy(st, "targeted_fix_applied")

\* C36: a scan tool result other than the success message (issues found,
\* tfsec not installed, no work directory, an unexpected error) makes the
\* SecurityScanner set security_passed True and security_warning True, and the
\* Deployer runs next although no scan was performed.
C36_ScanErrorsDeploy ==
    /\ (stage = "security_scanner") =>
          \A outcome \in ScanFailures :
              LET report == terraform_security_scan_tool(st["generated_files"], outcome)
                  patch == SecurityScannerAgent_run(st, outcome)
              IN  /\ ~Contains(report, SECURITY_SUCCESS)
                  /\ patch = [security_report |-> report, security_passed |-> TRUE,
                              security_warning |-> TRUE]
                  /\ security_router(Merge(st, patch)) = "deployer"
    /\ ((lastStage = "security_scanner")
          /\ Range(SecurityReport.text) \cap {P_TFSEC_MISSING, P_NO_WORK_DIR, P_SCAN_UNEXPECTED} # {})
          => (/\ Truthy(st, "security_passed")
              /\ Truthy(st, "security_warning")
              /\ stage = "deployer")
    /\ (lastStage = "deployer") => Truthy(st, "security_passed")

\* the Deployer has applied artifacts that tfsec, not being installed, never
\* scanned
C36_Witness ==
    /\ lastStage = "deployer"
    /\ SecurityReport.text = <<P_TFSEC_MISSING>>
    /\ Truthy(st, "security_passed")
    /\ Truthy(st, "security_warning")
    /\ Truthy(st, "deployment_passed")
    /\ stage = "cost_estimator"

\* C37: after a failed apply the ErrorAnalyzer classifies validation_report,
\* which is the passing validation report (with the JSON of the formatted
\* artifacts) followed by the separator and the deployment report; the
\* category is the first rule of error_patterns that the whole text matches,
\* which need not be the category of the deployment report alone.
C37_ClassifiesCombinedText ==
    (call \in FailedApplyStates) =>
        LET passing == terraform_validate_tool(call["generated_files"], "ok")
            matching == {i \in DOMAIN error_patterns :
                            _matches_pattern(CallReport, error_patterns[i])}
        IN  /\ ~Truthy(call, "validation_passed")
            /\ ~Truthy(call, "deployment_passed")
            /\ CallOrigin = "validation"
            /\ CallReport = call["validation_report"]
            /\ Contains(passing, VALIDATION_SUCCESS)
            /\ passing.json = call["generated_files"]
            /\ CallReport.text
                  = passing.text \o <<P_DEPLOY_SEP>> \o call["deployment_report"].text
            /\ CallReport.has_json
            /\ CallReport.json = passing.json
            /\ (returned # NoResult)
                  => (/\ returned.error_analysis
                            = _analyze_error_pattern(CallReport, "validation")[2]
                      /\ IF matching = {}
                         THEN Analysis.category = "unknown"
                         ELSE \E i \in matching :
                                 /\ \A j \in matching : i <= j
                                 /\ Analysis.category = error_patterns[i].category)

\* the provider reports a missing IAM policy; the artifacts declare a
\* security group, so the combined text is classified missing_security_group
C37_Witness ==
    /\ call \in FailedApplyStates
    /\ returned # NoResult
    /\ P_IAM_MISSING \in Range(call["deployment_report"].text)
    /\ Analysis.category = "missing_security_group"
    /\ returned.needs_full_retry = FALSE
    /\ _analyze_error_pattern(call["deployment_report"], "deployment")[2].category
          = "missing_iam"

\* C38: the Planner hands a non-empty queue to the Generator; the Generator
\* runs once per entry of that queue, in order, each run writing the entry's
\* name into generated_files (so a repeated name keeps the content written
\* last), and from the first entry of the Validator on every name of the
\* queue is a key of generated_files.
C38_OneGenerationPerQueueEntry ==
    /\ []((lastStage = "planner_architect")
            => (/\ stage = "code_generator"
                /\ cycle.queue = st["file_structure"]
                /\ Len(cycle.queue) >= 1
                /\ cycle.names = << >>))
    /\ [](/\ Len(cycle.names) <= Len(cycle.queue)
          /\ \A i \in 1..Len(cycle.names) : cycle.names[i] = cycle.queue[i].file_name
          /\ (stage = "code_generator") <=> (Len(cycle.names) < Len(cycle.queue)))
    /\ []((stage \notin {"planner_architect", "code_generator"})
            => (/\ Len(cycle.names) = Len(cycle.queue)
                /\ \A i \in 1..Len(cycle.queue) :
                      cycle.queue[i].file_name \in DOMAIN GeneratedFiles))
    /\ [][(stage = "code_generator")
            => (/\ Len(cycle'.names) = Len(cycle.names) + 1
                /\ st'["file_structure"] = Tail(st["file_structure"])
                /\ \E response \in CodeResponses :
                      st'["generated_files"]
                          = Put(GeneratedFiles, Head(st["file_structure"]).file_name,
                                _clean_markdown_code_fences(response))
                /\ stage' = (IF st'["file_structure"] = << >>
                             THEN "code_validator" ELSE "code_generator"))]_vars

\* second planning cycle, queue of two entries of the same name: the
\* Validator is entered after two Generator runs with the one artifact
C38_Witness ==
    /\ lastStage = "code_generator"
    /\ stage = "code_validator"
    /\ plannerRuns = 2
    /\ cycle.queue = LlmFiles
    /\ cycle.names = <<"vpc.tf", "vpc.tf">>
    /\ "vpc.tf" \in DOMAIN GeneratedFiles
    /\ GeneratedFiles["vpc.tf"] = HCL_RAW

\* C39: in the graph of main.py the node final_router adds one to
\* retry_count and final_router_condition reads the new value; no other
\* node writes retry_count, so with empty human_feedback the Planner runs at
\* most 3 times, retry_count never exceeds 3, and a session that ends at
\* final_router ends after the third failed attempt with retry_count = 3.
C39_MainRetryBound ==
    /\ []((Feedback = "")
            => (/\ plannerRuns <= 3
                /\ RetryCount <= 3
                /\ (stage = "planner") => (plannerRuns = RetryCount)
                /\ ((stage = END) /\ (lastStage = "final_router"))
                      => (RetryCount = 3 /\ plannerRuns = 3)))
    /\ [][((stage = "final_router") /\ (Feedback = ""))
            => (/\ Get(st', "retry_count", 0)
                      = (IF RetryCount < 3 THEN RetryCount + 1 ELSE RetryCount)
                /\ stage' = (IF Get(st', "retry_count", 0) < 3 THEN "planner" ELSE END))]_vars
    /\ [][(stage # "final_router") => (Get(st', "retry_count", 0) = RetryCount)]_vars

\* three validations have failed; the session has ended at final_router
C39_Witness ==
    /\ stage = END
    /\ lastStage = "final_router"
    /\ Feedback = ""
    /\ RetryCount = 3
    /\ plannerRuns = 3
    /\ ~Truthy(st, "validation_passed")

\* C40: in the graph of streamlit_app.py a run with empty human_feedback
\* has at most MAX_RETRIES + 1 Planner runs and reaches END; the Deployer is
\* always followed by END, so a failed apply ends the run with no further
\* Planner run and retry_count as it was.
C40_StreamlitTerminates ==
    /\ []((Feedback = "") => (plannerRuns <= ST_MAX_RETRIES + 1))
    /\ ((Feedback = "" /\ stage # END) ~> (stage = END))
    /\ [][(stage = "deployer")
            => (/\ stage' = END
                /\ plannerRuns' = plannerRuns
                /\ Get(st', "retry_count", 0) = RetryCount)]_vars
    /\ []((lastStage = "deployer") => (stage = END))

\* three validations failed, the fourth plan validated and its apply failed
C40_Witness ==
    /\ stage = END
    /\ lastStage = "deployer"
    /\ Feedback = ""
    /\ plannerRuns = ST_MAX_RETRIES + 1
    /\ RetryCount = ST_MAX_RETRIES
    /\ Has(st, "deployment_passed") /\ ~Truthy(st, "deployment_passed")
    /\ ~Truthy(st, "validation_passed")

====
